---- MODULE Spec2Model ----
(***************************************************************************)
(* Conduit control-plane hub (apps/api/internal/app, hub.go): the registry *)
(* of management connections and viewers, AgentConn (Close, Call,          *)
(* readLoop, failPending) and the fan-out of notifications.                *)
(*                                                                         *)
(* Every goroutine is a thread with a program counter.  A step is one      *)
(* critical section or one channel/transport operation of the Go code.     *)
(***************************************************************************)
EXTENDS Integers, FiniteSets, Sequences, TLC

\* ------------------------------------------------------------------ bounds
MaxConns   == 2      \* management connections accepted over the run
MaxCalls   == 2      \* RPC calls issued over the run
MaxViewers == 2      \* viewer sockets accepted over the run
MaxFrames  == 2      \* inbound frames read from agents over the run
MaxAttempts == 3     \* sessions the agent's supervisor starts over the run
MaxRelay   == 2      \* frames read from each transport of a bridge session
MaxDiscover == 3     \* attempts of a session's discovery loop
MaxRetries == 7      \* ... when the discovery loop is taken alone
MaxOps     == 3      \* record calls made on a telemetry taken alone
MaxSnaps   == 2      \* periodic telemetry snapshots over the run
MaxSteps   == 7      \* consecutive advances of the backoff

Conns     == 1..MaxConns
Calls     == 1..MaxCalls
Viewers   == 1..MaxViewers
ServerIds == {"s1", "s2"}

NoConn   == 0        \* absent key of h.agents / nil *AgentConn
NoCall   == 0        \* absent key of a.pending / nil channel
NoServer == "none"
Nil      == [id |-> -1, seq |-> 0]      \* the nil []byte sent by failPending

\* Call ids.  0 is the id a caller supplies verbatim in the request body
\* ("42"); k > 0 is the uuid generated for call k when the body has no id.
CallerId == 0
Ids      == {CallerId} \cup Calls

VARIABLES
    agents,           \* h.agents: server id -> connection (NoConn = no key)
    clients,          \* h.clients: function, DOMAIN = the server ids with a set
    hubMu,            \* holder of h.mu across steps (RegisterAgent), 0 = free
    connectedAt,      \* servers.connected_at IS NOT NULL, per server id
    schemaJson,       \* servers.schema_json: seq of the frame persisted, 0 = none
    connSid,          \* a.serverID
    transportClosed,  \* a.conn.Close has been called
    closed,           \* a.closed is closed
    closeCount,       \* number of close(a.closed) executed
    failCount,        \* number of failPending runs
    pending,          \* a.pending: id -> channel (channel k belongs to call k)
    superseded,       \* history: connections replaced by an install
    hpc,              \* handleAgentConnect goroutine of each connection
    rpc,              \* readLoop goroutine of each connection
    crashed,          \* an unrecovered panic ended the process
    frameLog,         \* history: the inbound frames read so far, in order
    cpc,              \* handleServerRPC goroutine of each call
    cconn,            \* the *AgentConn AgentFor returned to the call
    cid,              \* idKey of the call, -1 before it is assigned
    chBuf,            \* respCh buffer (capacity 1)
    chClosed,         \* respCh is closed
    chSends,          \* history: values ever sent on respCh
    chanPanic,        \* a send on, or close of, a closed respCh happened
    outcome,          \* what Call returned to handleServerRPC
    result,           \* the payload Call returned
    requests,         \* the requests callers make: role of the user, method of the body
    req,              \* the request handleServerRPC is serving
    audit,            \* history: the recordAudit calls of each request
    vpc,              \* handleServerEvents goroutine of each viewer
    vSid,             \* server id the viewer subscribed to
    vClosed,          \* the viewer's websocket is closed
    vRecv,            \* frames written to the viewer
    bFrame,           \* broadcast in progress per readLoop: the payload
    bSnap,            \* ... viewers of the snapshot not yet sent to
    bFail,            \* ... viewer whose send failed, awaiting removeClient
    blog,             \* history per broadcast frame: snapshot, sent, failed, removed
    hubRd,            \* the read loops holding h.mu.RLock (in broadcast)
    lastShape,        \* history: the members of the frame the read loop read last
    peerFrames,       \* the shapes of frame the connected agents send
    \* ---- the agent process (apps/agent, main.go)
    cfg,              \* Config after loadConfig, and the build's float conversion
    sup,              \* position of main's loop
    cancelled,        \* the signal context is done
    backoff,          \* main's backoff
    wait,             \* the wait main computed with applyJitter
    metrics,          \* the telemetry struct: its counters and lastSessionDuration
    lastRun,          \* history: how far the last runOnce got
    runErr,           \* the error runOnce returned
    boSeq,            \* history: the values backoff took since it was last initial
    waitLog,          \* history: per failure, the backoff and the wait computed
    lastSnap,         \* the snapshot telemetry logged last
    snaps,            \* how many snapshots were logged
    telPc,            \* telemetry.loop: "loop", "done"
    apiConn,          \* transport A: "none", "open", "closed"
    mcConn,           \* transport B
    sessCtx,          \* runOnce's context is cancelled
    runPc,            \* session.run
    errCh,            \* errCh (capacity 2)
    agentPanic,       \* a goroutine of the agent panicked on a pending channel
    pa,               \* pipeAPIToMC goroutine
    paData,           \* the frame it holds
    pb,               \* pipeMCToAPI goroutine
    pbData,           \* the frame it holds
    aRead,            \* history: number of frames read from A
    bLog,             \* history: frames read from B, in order
    toB,              \* history: frames written to B, in order
    toA,              \* history: frames written to A, in order
    sPending,         \* s.pending: the self-issued call ids with a channel
    dch,              \* the channel of each self-issued call
    dpc,              \* discoverLoop goroutine
    dAttempt,         \* its attempt counter
    dResult,          \* what callMinecraft returned to sendDiscover
    dBackoff,         \* its backoff, in seconds
    dLimit,           \* the attempts a discovery loop makes in this run
    dLog,             \* history: outcome of each sendDiscover
    handledLog,       \* history: per frame read from B, what handleMCMessage returned
    \* ---- writers of the transports (hub.go and the agent's session)
    writeMu,          \* writeMu of a management / viewer connection: its holder
    connWriting,      \* per transport: the goroutines writing a frame on it
    wpc               \* position of each writing goroutine

hubVars  == <<agents, hubMu, connectedAt, schemaJson, connSid, transportClosed,
              closed, closeCount, failCount, superseded, hpc, rpc, crashed>>
rpcVars  == <<requests, req, audit>>
callVars == <<cpc, cconn, cid, outcome, result, rpcVars>>
chanVars == <<pending, chBuf, chClosed, chSends, chanPanic>>
viewVars == <<clients, vpc, vSid, vClosed, vRecv>>
bcVars   == <<bFrame, bSnap, bFail, blog, hubRd>>
wrVars   == <<writeMu, connWriting, wpc>>

telVars  == <<lastSnap, snaps, telPc>>
supVars  == <<cfg, sup, cancelled, backoff, wait, metrics, lastRun, runErr,
              boSeq, waitLog, telVars>>
sessVars == <<apiConn, mcConn, sessCtx, runPc, errCh, agentPanic>>
pipeVars == <<pa, paData, pb, pbData, aRead, bLog, toB, toA, handledLog>>
discVars == <<sPending, dch, dpc, dAttempt, dResult, dBackoff, dLog>>
\* What no step changes: the length of the run.
boundVars == <<dLimit>>
agentVars == <<supVars, sessVars, pipeVars, discVars, boundVars>>

\* What main's loop alone writes; the two relay loops' own state.
loopVars  == <<cfg, cancelled, backoff, wait, lastRun, boSeq, waitLog, telVars>>
pipeAVars == <<pa, paData, aRead>>
pipeBVars == <<pb, pbData, bLog, handledLog>>

hubSide == <<hubVars, callVars, chanVars, viewVars, bcVars, frameLog, lastShape,
             peerFrames, wrVars, boundVars>>

vars == <<hubVars, callVars, chanVars, viewVars, bcVars, frameLog, lastShape,
          peerFrames, wrVars, agentVars>>

frameSeq == Len(frameLog)               \* number of inbound frames read so far

Empty == [id |-> -2, seq |-> 0]         \* an empty channel buffer
Frame(i, n) == [id |-> i, seq |-> n]    \* inbound frame n carrying id i
NoId == -1                              \* frame without an "id" member

\* History record of one broadcast; frames that were not broadcast keep this.
NoBroadcast == [server |-> NoServer, snap |-> {}, sent |-> {}, failed |-> {}, removed |-> {}]

\* ------------------------------------------------------- inbound frames
\* What the read loop looks at in a frame: whether json.Unmarshal into
\* map[string]json.RawMessage succeeds, and which members the object has.
Shapes == {f \in [decodable : BOOLEAN, control : BOOLEAN, id : BOOLEAN, method : BOOLEAN] :
                ~f.decodable => ~(f.control \/ f.id \/ f.method)}

NoShape == [decodable |-> FALSE, control |-> FALSE, id |-> FALSE, method |-> FALSE]

\* The branch of readLoop a frame takes: "_control" first, then "id", then
\* "method"; anything else is skipped.
ClassifyIdFirst(f) ==
    IF ~f.decodable THEN "dropped"
    ELSE IF f.id THEN "response"
    ELSE IF f.control THEN "control"
    ELSE IF f.method THEN "notification"
    ELSE "dropped"

Classify(f) ==
    IF ~f.decodable THEN "dropped"
    ELSE IF f.control THEN "control"
    ELSE IF f.id THEN "response"
    ELSE IF f.method THEN "notification"
    ELSE "dropped"

\* What an agent bridging a conforming JSON-RPC endpoint sends: responses
\* (id only), notifications (method only) and its own control frames; and a
\* frame that is no JSON object.
WellFormed ==
    {f \in Shapes : \/ ~f.decodable
                    \/ Cardinality({m \in {"control", "id", "method"} : f[m]}) = 1}

\* ---- Writers.  The goroutines that write to one websocket, each at the
\* call it is in.  On the hub a management connection is written by the
\* Calls (a.write) and closed by RegisterAgent, its read loop and its
\* handler (a.Close); a viewer connection is written by the broadcasts of
\* the read loops (client.Send, then client.Close after a failed send) and
\* closed by its handler (conn.Close, deferred).  In the agent, transport B
\* is written by pipeAPIToMC and callMinecraft, transport A by pipeMCToAPI
\* and sendDiscover.
NoWriter == <<"none", 0>>
CallWriters      == {"Call"} \X Calls
CloseWriters     == {<<"RegisterAgent", 0>>, <<"readLoop", 0>>, <<"handleAgentConnect", 0>>}
BroadcastWriters == {"broadcast"} \X Conns
EventsWriters    == {<<"handleServerEvents", 0>>}
RelayWriters     == {<<"pipeAPIToMC", 0>>, <<"pipeMCToAPI", 0>>}
DiscoverWriters  == {<<"discoverLoop", 0>>}
Writers == CallWriters \cup CloseWriters \cup BroadcastWriters \cup EventsWriters
               \cup RelayWriters \cup DiscoverWriters

HubTransports == {"agent", "client"}    \* a.conn of one AgentConn, c.conn of one ClientConn
Transports    == HubTransports \cup {"A", "B"}    \* s.apiConn, s.mcConn

WriterStart(w) ==
    CASE w \in CallWriters      -> "write"
      [] w \in CloseWriters     -> "Close"
      [] w \in BroadcastWriters -> "Send"
      [] w \in EventsWriters    -> "conn.Close"
      [] w \in RelayWriters     -> "Write"
      [] OTHER                  -> "callMinecraft"

InitWriters ==
    /\ writeMu = [t \in HubTransports |-> NoWriter]
    /\ connWriting = [t \in Transports |-> {}]
    /\ wpc = [w \in Writers |-> WriterStart(w)]

\* ------------------------------------------------------------ roles and rbac
\* type Role, roleOrder; a role the map does not hold has order 0.
RoleViewer    == "viewer"
RoleModerator == "moderator"
RoleOwner     == "owner"
RoleUnknown   == "guest"
Roles == {RoleViewer, RoleModerator, RoleOwner, RoleUnknown}

roleOrder(r) ==
    IF r = RoleViewer THEN 1
    ELSE IF r = RoleModerator THEN 2
    ELSE IF r = RoleOwner THEN 3
    ELSE 0

\* Meets accepting every role the map holds.
MeetsKnown(r, min) == roleOrder(r) >= 1

\* func (r Role) Meets(min Role) bool
Meets(r, min) == roleOrder(r) >= roleOrder(min)

\* A method name is the sequence of the pieces the rule prefixes are made
\* of; strings.HasPrefix is the prefix relation on these sequences.
HasPrefix(s, prefix) ==
    Len(prefix) <= Len(s) /\ SubSeq(s, 1, Len(prefix)) = prefix

rbacRules ==
    << [prefix |-> <<"minecraft:", "server", "/", "stop">>,  role |-> RoleOwner],
       [prefix |-> <<"minecraft:", "server", "/", "save">>,  role |-> RoleModerator],
       [prefix |-> <<"minecraft:", "allowlist", "/">>,       role |-> RoleModerator],
       [prefix |-> <<"minecraft:", "operators", "/">>,       role |-> RoleModerator],
       [prefix |-> <<"minecraft:", "gamerule", "/">>,        role |-> RoleModerator],
       [prefix |-> <<"minecraft:", "settings", "/">>,        role |-> RoleModerator],
       [prefix |-> <<"minecraft:", "players", "/", "list">>, role |-> RoleViewer] >>

\* for _, rule := range rbacRules { if strings.HasPrefix(...) { return rule.role } }
RECURSIVE firstRule(_, _)
firstRule(method, i) ==
    IF i > Len(rbacRules) THEN RoleOwner
    ELSE IF HasPrefix(method, rbacRules[i].prefix) THEN rbacRules[i].role
    ELSE firstRule(method, i + 1)

roleForMethod(method) ==
    IF method = <<>> THEN RoleViewer ELSE firstRule(method, 1)

\* The methods of the requests: none, one under each kind of rule, one
\* that continues a rule's prefix, one under no rule.
NoMethod == <<>>
Methods ==
    { NoMethod,
      <<"minecraft:", "server", "/", "stop">>,
      <<"minecraft:", "server", "/", "save", "-all">>,
      <<"minecraft:", "players", "/", "list">>,
      <<"rpc.discover">> }

Requests == [role : Roles, method : Methods]
NoRequest == [role |-> "", method |-> <<>>]
DefaultRequest == [role |-> RoleOwner, method |-> <<"minecraft:", "server", "/", "stop">>]

\* recordAudit(ctx, user.ID, serverID, req.Method, req.Params, status, err)
recordAudit(log, k, action, status, err) ==
    [log EXCEPT ![k] = Append(@, [action |-> action, status |-> status, err |-> err])]

InitHubFor(shapes, rs) ==
    /\ requests = rs
    /\ req = [k \in Calls |-> NoRequest]
    /\ audit = [k \in Calls |-> <<>>]
    /\ lastShape = NoShape
    /\ peerFrames = shapes
    /\ InitWriters
    /\ agents = [s \in ServerIds |-> NoConn]
    /\ clients = [s \in {} |-> {}]
    /\ hubMu = 0
    /\ connectedAt = [s \in ServerIds |-> FALSE]
    /\ schemaJson = [s \in ServerIds |-> 0]
    /\ connSid = [c \in Conns |-> NoServer]
    /\ transportClosed = [c \in Conns |-> FALSE]
    /\ closed = [c \in Conns |-> FALSE]
    /\ closeCount = [c \in Conns |-> 0]
    /\ failCount = [c \in Conns |-> 0]
    /\ pending = [c \in Conns |-> [i \in Ids |-> NoCall]]
    /\ superseded = {}
    /\ hpc = [c \in Conns |-> "idle"]
    /\ rpc = [c \in Conns |-> "off"]
    /\ crashed = FALSE
    /\ frameLog = <<>>
    /\ cpc = [k \in Calls |-> "idle"]
    /\ cconn = [k \in Calls |-> NoConn]
    /\ cid = [k \in Calls |-> NoId]
    /\ chBuf = [k \in Calls |-> Empty]
    /\ chClosed = [k \in Calls |-> FALSE]
    /\ chSends = [k \in Calls |-> <<>>]
    /\ chanPanic = FALSE
    /\ outcome = [k \in Calls |-> "none"]
    /\ result = [k \in Calls |-> Nil]
    /\ vpc = [v \in Viewers |-> "idle"]
    /\ vSid = [v \in Viewers |-> NoServer]
    /\ vClosed = [v \in Viewers |-> FALSE]
    /\ vRecv = [v \in Viewers |-> {}]
    /\ bFrame = [c \in Conns |-> 0]
    /\ bSnap = [c \in Conns |-> {}]
    /\ bFail = [c \in Conns |-> 0]
    /\ hubRd = {}
    /\ blog = [n \in 1..MaxFrames |-> NoBroadcast]

InitHub(shapes) == InitHubFor(shapes, {DefaultRequest})

\* ------------------------------------------------- the agent's configuration
\* Durations are whole seconds.  time.Duration is a signed integer: the
\* model keeps a width of 8 bits, so that products can leave the range.
Second      == 1
MaxDuration == 127
MinDuration == 0 - 128

\* BackoffMultiplier is a float64: the model writes it in tenths (20 is 2.0).
Tenths == 10

\* The environment: AGENT_BACKOFF_INITIAL, _MAX, _MULTIPLIER and _JITTER, and
\* what the build's float64 -> int64 conversion yields for a value out of
\* range (the language leaves it to the implementation).
RawCfgs == [initial : {0, 1, 3}, max : {0, 30, 100}, multiplier : {10, 15, 20},
            jitter : {0 - 1, 0, 2}, conv : {MinDuration, MaxDuration}]

\* loadConfig: the checks that follow the parse.
loadConfig(e) ==
    LET initial == IF e.initial <= 0 THEN Second ELSE e.initial
        max     == IF e.max < initial THEN initial ELSE e.max
    IN  [initial    |-> initial,
         max        |-> max,
         multiplier |-> IF e.multiplier < 11 THEN 20 ELSE e.multiplier,
         jitter     |-> IF e.jitter < 0 THEN 0 ELSE e.jitter,
         conv       |-> e.conv]

Cfgs == {loadConfig(e) : e \in RawCfgs}

\* initial=1s, multiplier=2, cap=30s, jitter=0
DefaultCfg == loadConfig([initial |-> 1, max |-> 30, multiplier |-> 20,
                          jitter |-> 0, conv |-> MinDuration])

\* time.Duration(float64(current) * multiplier): truncated; out of range it
\* is whatever the build yields.
ScaleDuration(current, multiplier, conv) ==
    LET x == (current * multiplier) \div Tenths
    IN  IF x > MaxDuration THEN conv ELSE x

nextBackoffUncapped(current, multiplier, max, conv) ==
    ScaleDuration(current, multiplier, conv)

nextBackoff(current, multiplier, max, conv) ==
    LET cur  == IF current <= 0 THEN Second ELSE current
        m    == IF multiplier < 11 THEN 20 ELSE multiplier
        next == ScaleDuration(cur, m, conv)
        capd == IF max > 0 /\ next > max THEN max ELSE next
    IN  IF capd <= 0 THEN cur ELSE capd

\* applyJitter adding the whole jitter ceiling.
applyJitterFull(base, jitter, n, randOk) == base + jitter

\* applyJitter: base + n with n drawn from [0, jitter); base when jitter is
\* not positive or the random source fails.
applyJitter(base, jitter, n, randOk) ==
    IF jitter <= 0 THEN base
    ELSE IF ~randOk THEN base
    ELSE base + n

\* main: backoff := cfg.BackoffInitial; if backoff <= 0 { backoff = time.Second }
initialBackoff(c) == IF c.initial <= 0 THEN Second ELSE c.initial

NoError == ""
Targets == {"api", "minecraft"}

\* newTelemetry: every counter 0, empty maps (an absent key reads as 0).
NoMetrics ==
    [sessions |-> 0, failures |-> 0, bridges |-> 0,
     lastError |-> NoError,
     lastSessionDuration |-> "none",
     dialSuccess |-> [t \in Targets |-> 0],
     dialFailures |-> [t \in Targets |-> 0],
     dialLatency |-> [t \in Targets |-> "none"],
     discoverSuccess |-> 0, discoverFailures |-> 0,
     apiToMCTotal |-> 0, mcToAPITotal |-> 0]

recordSessionStart(t) == [t EXCEPT !.sessions = @ + 1]

recordSessionSuccess(t, duration) ==
    [t EXCEPT !.lastSessionDuration = duration, !.lastError = NoError]

recordSessionFailure(t, duration, err) ==
    [t EXCEPT !.failures = @ + 1,
              !.lastSessionDuration = duration,
              !.lastError = IF err # NoError THEN err ELSE @]

recordDialSuccess(t, target) ==
    [t EXCEPT !.dialSuccess[target] = @ + 1, !.dialLatency[target] = "measured"]

recordDialFailure(t, target, err) ==
    [t EXCEPT !.dialFailures[target] = @ + 1,
              !.lastError = IF err # NoError THEN err ELSE @]

recordDiscover(t, success, err) ==
    IF success
    THEN [t EXCEPT !.discoverSuccess = @ + 1]
    ELSE [t EXCEPT !.discoverFailures = @ + 1,
                   !.lastError = IF err # NoError THEN err ELSE @]

\* recordBridgeEstablished counting nothing.
recordBridgeSkipped(t) == t
recordBridgeEstablished(t) == [t EXCEPT !.bridges = @ + 1]
recordForwardAPIToMC(t) == [t EXCEPT !.apiToMCTotal = @ + 1]
recordForwardMCToAPI(t) == [t EXCEPT !.mcToAPITotal = @ + 1]

\* snapshot: the telemetry it leaves behind, and the attributes it logs
\* (copies of the maps; last_error only when there is one).
snapshotResetting(t) == [t EXCEPT !.sessions = 0, !.failures = 0, !.bridges = 0]
snapshot(t) == t

NoSnap == [logged |-> FALSE]
Emitted(t) ==
    [logged |-> TRUE,
     sessions_total |-> t.sessions,
     session_failures_total |-> t.failures,
     bridges_established_total |-> t.bridges,
     last_session_duration |-> t.lastSessionDuration,
     discover_success_total |-> t.discoverSuccess,
     discover_failures_total |-> t.discoverFailures,
     messages_forwarded_api_to_mc |-> t.apiToMCTotal,
     messages_forwarded_mc_to_api |-> t.mcToAPITotal,
     dial_success_total |-> t.dialSuccess,
     dial_failures_total |-> t.dialFailures,
     dial_last_latency |-> t.dialLatency,
     last_error |-> t.lastError]

NoFrame == 0
NoChan  == [buf |-> NoFrame, closed |-> FALSE]
Discovers == 1..MaxRetries

\* newSession: the session's transports, an empty pending table; none of its
\* goroutines started.
newSession ==
    /\ sessCtx' = FALSE
    /\ runPc' = "start"
    /\ errCh' = <<>>
    /\ pa' = "off" /\ paData' = NoFrame
    /\ pb' = "off" /\ pbData' = NoFrame
    /\ aRead' = 0
    /\ bLog' = <<>>
    /\ toB' = <<>>
    /\ toA' = <<>>
    /\ handledLog' = <<>>
    /\ sPending' = {}
    /\ dch' = [d \in Discovers |-> NoChan]
    /\ dpc' = "off"
    /\ dAttempt' = 0
    /\ dResult' = "none"
    /\ dBackoff' = 5
    /\ dLog' = <<>>

InitAgentFor(c, attempts) ==
    /\ dLimit = attempts
    /\ cfg = c
    /\ sup = "top"
    /\ cancelled = FALSE
    /\ backoff = initialBackoff(c)
    /\ wait = 0
    /\ metrics = NoMetrics
    /\ lastRun = "none"
    /\ runErr = "none"
    /\ boSeq = <<initialBackoff(c)>>
    /\ waitLog = <<>>
    /\ lastSnap = NoSnap
    /\ snaps = 0
    /\ telPc = "loop"
    /\ apiConn = "none"
    /\ mcConn = "none"
    /\ sessCtx = FALSE
    /\ runPc = "off"
    /\ errCh = <<>>
    /\ agentPanic = FALSE
    /\ pa = "off" /\ paData = NoFrame
    /\ pb = "off" /\ pbData = NoFrame
    /\ aRead = 0
    /\ bLog = <<>>
    /\ toB = <<>>
    /\ toA = <<>>
    /\ handledLog = <<>>
    /\ sPending = {}
    /\ dch = [d \in Discovers |-> NoChan]
    /\ dpc = "off"
    /\ dAttempt = 0
    /\ dResult = "none"
    /\ dBackoff = 5
    /\ dLog = <<>>

InitAgent(c) == InitAgentFor(c, MaxDiscover)

Init == InitHub(WellFormed) /\ InitAgent(DefaultCfg)

\* A panic of the read loop (or on a response channel) ends the process.
Running == ~crashed /\ ~chanPanic

\* ------------------------------------------------------- channel helpers
\* select { case ch <- v: default: } followed by close(ch), as the read
\* loop and failPending do on a channel they removed from the table.
\* A send on, or a close of, an already closed channel panics.
Deliver(bufs, cls, snd, k, v) ==
    [buf    |-> [bufs EXCEPT ![k] = IF bufs[k] = Empty THEN v ELSE bufs[k]],
     closed |-> [cls EXCEPT ![k] = TRUE],
     sends  |-> [snd EXCEPT ![k] = IF bufs[k] = Empty THEN Append(snd[k], v) ELSE snd[k]],
     panic  |-> cls[k]]

\* removePending: the channel stored under idKey, deleted from the table.
removePendingKept(c, idKey) ==
    [ch    |-> pending[c][idKey],
     table |-> pending]

removePending(c, idKey) ==
    [ch    |-> pending[c][idKey],
     table |-> [pending EXCEPT ![c][idKey] = NoCall]]

\* failPending: every slot is deleted, sent nil unless its buffer is full,
\* and closed; all of it under pendMu.
RECURSIVE FailAll(_, _, _, _)
FailAll(ks, bufs, cls, snd) ==
    IF ks = {} THEN [buf |-> bufs, closed |-> cls, sends |-> snd, panic |-> FALSE]
    ELSE LET k == CHOOSE x \in ks : TRUE
             d == Deliver(bufs, cls, snd, k, Nil)
             r == FailAll(ks \ {k}, d.buf, d.closed, d.sends)
         IN  [r EXCEPT !.panic = r.panic \/ d.panic]

failPending(c) ==
    LET ks == {pending[c][i] : i \in Ids} \ {NoCall}
        r  == FailAll(ks, chBuf, chClosed, chSends)
    IN  /\ pending' = [pending EXCEPT ![c] = [i \in Ids |-> NoCall]]
        /\ chBuf' = r.buf
        /\ chClosed' = r.closed
        /\ chSends' = r.sends
        /\ chanPanic' = (chanPanic \/ r.panic)
        /\ failCount' = [failCount EXCEPT ![c] = @ + 1]

\* ------------------------------------------------------------ AgentConn.Close
\* A goroutine inside Close is the handler of connection t (closing the
\* connection it found registered, or its own) or the read loop of t.
\* Close runs in three steps: conn.Close under writeMu with the test of
\* a.closed; close(a.closed); failPending.

\* RegisterAgent: the connection found under serverID, which it closes.
ExistingIgnored(s) == NoConn
Existing(s) == agents[s]

HTarget(t) == IF hubMu = t THEN Existing(connSid[t]) ELSE t
HReturn(t) == IF hubMu = t THEN "install" ELSE "done"

\* select { case <-a.closed: (return) default: close(a.closed); failPending }
CloseTest(isClosed) == IF isClosed THEN "return" ELSE "close"

Close_Begin_H(t) ==
    /\ Running
    /\ hpc[t] = "Close"
    /\ LET c == HTarget(t) IN
        /\ transportClosed' = [transportClosed EXCEPT ![c] = TRUE]
        /\ hpc' = [hpc EXCEPT ![t] = IF CloseTest(closed[c]) = "return"
                                     THEN HReturn(t) ELSE "close_chan"]
    /\ UNCHANGED <<agents, hubMu, connectedAt, schemaJson, connSid, closed,
                   closeCount, failCount, superseded, rpc, crashed>>
    /\ UNCHANGED <<callVars, chanVars, viewVars, bcVars, frameLog>>
    /\ UNCHANGED <<lastShape, peerFrames, wrVars, agentVars>>

\* close(a.closed); a second close panics.  The router's Recoverer catches a
\* panic of a handler goroutine: the goroutine ends where it is, with h.mu
\* still held if it was inside RegisterAgent.
Close_Chan_H(t) ==
    /\ Running
    /\ hpc[t] = "close_chan"
    /\ LET c == HTarget(t) IN
        /\ closeCount' = [closeCount EXCEPT ![c] = @ + 1]
        /\ IF closed[c]
           THEN hpc' = [hpc EXCEPT ![t] = "panicked"] /\ UNCHANGED closed
           ELSE /\ closed' = [closed EXCEPT ![c] = TRUE]
                /\ hpc' = [hpc EXCEPT ![t] = "failPending"]
    /\ UNCHANGED <<agents, hubMu, connectedAt, schemaJson, connSid,
                   transportClosed, failCount, superseded, rpc, crashed>>
    /\ UNCHANGED <<callVars, chanVars, viewVars, bcVars, frameLog>>
    /\ UNCHANGED <<lastShape, peerFrames, wrVars, agentVars>>

Close_FailPending_H(t) ==
    /\ Running
    /\ hpc[t] = "failPending"
    /\ failPending(HTarget(t))
    /\ hpc' = [hpc EXCEPT ![t] = HReturn(t)]
    /\ UNCHANGED <<agents, hubMu, connectedAt, schemaJson, connSid,
                   transportClosed, closed, closeCount, superseded, rpc, crashed>>
    /\ UNCHANGED <<callVars, viewVars, bcVars, frameLog>>
    /\ UNCHANGED <<lastShape, peerFrames, wrVars, agentVars>>

Close_Begin_R(t) ==
    /\ Running
    /\ rpc[t] = "Close"
    /\ transportClosed' = [transportClosed EXCEPT ![t] = TRUE]
    /\ rpc' = [rpc EXCEPT ![t] = IF CloseTest(closed[t]) = "return"
                                 THEN "agentClosed" ELSE "close_chan"]
    /\ UNCHANGED <<agents, hubMu, connectedAt, schemaJson, connSid, closed,
                   closeCount, failCount, superseded, hpc, crashed>>
    /\ UNCHANGED <<callVars, chanVars, viewVars, bcVars, frameLog>>
    /\ UNCHANGED <<lastShape, peerFrames, wrVars, agentVars>>

\* The read loop is a bare goroutine: its panic ends the process.
Close_Chan_R(t) ==
    /\ Running
    /\ rpc[t] = "close_chan"
    /\ closeCount' = [closeCount EXCEPT ![t] = @ + 1]
    /\ IF closed[t]
       THEN crashed' = TRUE /\ UNCHANGED <<closed, rpc>>
       ELSE /\ closed' = [closed EXCEPT ![t] = TRUE]
            /\ rpc' = [rpc EXCEPT ![t] = "failPending"]
            /\ UNCHANGED crashed
    /\ UNCHANGED <<agents, hubMu, connectedAt, schemaJson, connSid,
                   transportClosed, failCount, superseded, hpc>>
    /\ UNCHANGED <<callVars, chanVars, viewVars, bcVars, frameLog>>
    /\ UNCHANGED <<lastShape, peerFrames, wrVars, agentVars>>

Close_FailPending_R(t) ==
    /\ Running
    /\ rpc[t] = "failPending"
    /\ failPending(t)
    /\ rpc' = [rpc EXCEPT ![t] = "agentClosed"]
    /\ UNCHANGED <<agents, hubMu, connectedAt, schemaJson, connSid,
                   transportClosed, closed, closeCount, superseded, hpc, crashed>>
    /\ UNCHANGED <<callVars, viewVars, bcVars, frameLog>>
    /\ UNCHANGED <<lastShape, peerFrames, wrVars, agentVars>>

\* ------------------------------------------------------- Hub.RegisterAgent
\* handleAgentConnect authenticates the token, accepts the socket and calls
\* RegisterAgent, which takes h.mu and closes the connection it finds.
\* h.mu.Lock() succeeds: no writer and no reader holds h.mu.
WriteLockFree == hubMu = 0 /\ hubRd = {}

\* Connections are accepted in index order (they are interchangeable).
RegisterAgent_Lock(c) ==
    /\ Running
    /\ hpc[c] = "idle"
    /\ \A d \in Conns : d < c => hpc[d] # "idle"
    /\ WriteLockFree
    /\ \E s \in ServerIds :
        /\ connSid' = [connSid EXCEPT ![c] = s]
        /\ IF Existing(s) # NoConn
           THEN /\ hpc' = [hpc EXCEPT ![c] = "Close"]
                /\ hubMu' = c
                /\ UNCHANGED agents
           ELSE \* nothing to close: install and unlock at once
                /\ agents' = [agents EXCEPT ![s] = c]
                /\ hpc' = [hpc EXCEPT ![c] = "markConnected"]
                /\ UNCHANGED hubMu
        /\ superseded' = IF Existing(s) # NoConn THEN superseded
                          ELSE superseded \cup ({agents[s]} \ {NoConn})
    /\ UNCHANGED <<connectedAt, schemaJson, transportClosed, closed,
                   closeCount, failCount, rpc, crashed>>
    /\ UNCHANGED <<callVars, chanVars, viewVars, bcVars, frameLog>>
    /\ UNCHANGED <<lastShape, peerFrames, wrVars, agentVars>>

\* h.agents[serverID] = agent; h.mu.Unlock()
RegisterAgent_Install(c) ==
    /\ Running
    /\ hpc[c] = "install"
    /\ hubMu = c
    /\ superseded' = superseded \cup ({agents[connSid[c]]} \ {NoConn})
    /\ agents' = [agents EXCEPT ![connSid[c]] = c]
    /\ hubMu' = 0
    /\ hpc' = [hpc EXCEPT ![c] = "markConnected"]
    /\ UNCHANGED <<connectedAt, schemaJson, connSid, transportClosed, closed,
                   closeCount, failCount, rpc, crashed>>
    /\ UNCHANGED <<callVars, chanVars, viewVars, bcVars, frameLog>>
    /\ UNCHANGED <<lastShape, peerFrames, wrVars, agentVars>>

\* UPDATE servers SET connected_at = now(); go agent.readLoop(); return agent
RegisterAgent_Return(c) ==
    /\ Running
    /\ hpc[c] = "markConnected"
    /\ connectedAt' = [connectedAt EXCEPT ![connSid[c]] = TRUE]
    /\ rpc' = [rpc EXCEPT ![c] = "read"]
    /\ hpc' = [hpc EXCEPT ![c] = "wait"]
    /\ UNCHANGED <<agents, hubMu, schemaJson, connSid, transportClosed, closed,
                   closeCount, failCount, superseded, crashed>>
    /\ UNCHANGED <<callVars, chanVars, viewVars, bcVars, frameLog>>
    /\ UNCHANGED <<lastShape, peerFrames, wrVars, agentVars>>

\* select { case <-agent.Closed(): return
\*          case <-r.Context().Done(): agent.Close(...); return }
handleAgentConnect_Closed(c) ==
    /\ Running
    /\ hpc[c] = "wait"
    /\ closed[c]
    /\ hpc' = [hpc EXCEPT ![c] = "done"]
    /\ UNCHANGED <<agents, hubMu, connectedAt, schemaJson, connSid,
                   transportClosed, closed, closeCount, failCount, superseded,
                   rpc, crashed>>
    /\ UNCHANGED <<callVars, chanVars, viewVars, bcVars, frameLog>>
    /\ UNCHANGED <<lastShape, peerFrames, wrVars, agentVars>>

handleAgentConnect_Cancelled(c) ==
    /\ Running
    /\ hpc[c] = "wait"
    /\ hpc' = [hpc EXCEPT ![c] = "Close"]
    /\ UNCHANGED <<agents, hubMu, connectedAt, schemaJson, connSid,
                   transportClosed, closed, closeCount, failCount, superseded,
                   rpc, crashed>>
    /\ UNCHANGED <<callVars, chanVars, viewVars, bcVars, frameLog>>
    /\ UNCHANGED <<lastShape, peerFrames, wrVars, agentVars>>

\* ------------------------------------------------------- AgentConn.readLoop
\* a.conn.Read fails: always once the transport is closed, and at any time
\* on a network failure.  The loop then calls a.Close and hub.agentClosed.
readLoop_ReadError(c) ==
    /\ Running
    /\ rpc[c] = "read"
    /\ rpc' = [rpc EXCEPT ![c] = "Close"]
    /\ UNCHANGED <<agents, hubMu, connectedAt, schemaJson, connSid,
                   transportClosed, closed, closeCount, failCount, superseded,
                   hpc, crashed>>
    /\ UNCHANGED <<callVars, chanVars, viewVars, bcVars, frameLog>>
    /\ UNCHANGED <<lastShape, peerFrames, wrVars, agentVars>>

\* Hub.agentClosed: h.mu.Lock(); delete(h.agents, serverID); h.mu.Unlock()
agentClosed(ag, serverID, c) == [ag EXCEPT ![serverID] = NoConn]

readLoop_AgentClosed(c) ==
    /\ Running
    /\ rpc[c] = "agentClosed"
    /\ WriteLockFree
    /\ agents' = agentClosed(agents, connSid[c], c)
    /\ rpc' = [rpc EXCEPT ![c] = "markDisconnected"]
    /\ UNCHANGED <<hubMu, connectedAt, schemaJson, connSid, transportClosed,
                   closed, closeCount, failCount, superseded, hpc, crashed>>
    /\ UNCHANGED <<callVars, chanVars, viewVars, bcVars, frameLog>>
    /\ UNCHANGED <<lastShape, peerFrames, wrVars, agentVars>>

\* UPDATE servers SET connected_at = NULL; return
readLoop_MarkDisconnected(c) ==
    /\ Running
    /\ rpc[c] = "markDisconnected"
    /\ connectedAt' = [connectedAt EXCEPT ![connSid[c]] = FALSE]
    /\ rpc' = [rpc EXCEPT ![c] = "done"]
    /\ UNCHANGED <<agents, hubMu, schemaJson, connSid, transportClosed, closed,
                   closeCount, failCount, superseded, hpc, crashed>>
    /\ UNCHANGED <<callVars, chanVars, viewVars, bcVars, frameLog>>
    /\ UNCHANGED <<lastShape, peerFrames, wrVars, agentVars>>

\* The "_control" member of a frame: "discover", or any other string.
NoControl == ""
ControlTypes == {"discover", "other"}

\* a.conn.Read returns a frame; possible only while the transport is open.
\* The frame gets the next sequence number, which stands for its bytes.

\* A frame the loop drops, taken for a read error.
readLoop_DroppedClosing(c) ==
    /\ Running
    /\ rpc[c] = "read"
    /\ ~transportClosed[c]
    /\ frameSeq < MaxFrames
    /\ frameLog' = Append(frameLog, [conn |-> c, kind |-> "dropped", id |-> NoId,
                                     ctl |-> NoControl])
    /\ \E f \in peerFrames : Classify(f) = "dropped" /\ lastShape' = f
    /\ rpc' = [rpc EXCEPT ![c] = "Close"]
    /\ UNCHANGED <<agents, hubMu, connectedAt, schemaJson, connSid, transportClosed,
                   closed, closeCount, failCount, superseded, hpc, crashed>>
    /\ UNCHANGED <<callVars, chanVars, viewVars, bcVars>>
    /\ UNCHANGED <<peerFrames, wrVars, agentVars>>

\* json.Unmarshal fails, or the frame has neither "_control", "id" nor
\* "method": logged (or not) and dropped.
readLoop_Dropped(c) ==
    /\ Running
    /\ rpc[c] = "read"
    /\ ~transportClosed[c]
    /\ frameSeq < MaxFrames
    /\ frameLog' = Append(frameLog, [conn |-> c, kind |-> "dropped", id |-> NoId, ctl |-> NoControl])
    /\ \E f \in peerFrames : Classify(f) = "dropped" /\ lastShape' = f
    /\ UNCHANGED <<hubVars, callVars, chanVars, viewVars, bcVars>>
    /\ UNCHANGED <<peerFrames, wrVars, agentVars>>

\* handleControl: "discover" with a schema is persisted (a failure is only
\* logged); "discover" without schema and unknown types change nothing.
handleControl(sj, serverID, controlType, hasSchema, dbOk, n) ==
    IF controlType = "discover" /\ hasSchema /\ dbOk
    THEN [sj EXCEPT ![serverID] = n] ELSE sj

readLoop_Control(c) ==
    /\ Running
    /\ rpc[c] = "read"
    /\ ~transportClosed[c]
    /\ frameSeq < MaxFrames
    /\ \E f \in peerFrames : Classify(f) = "control" /\ lastShape' = f
    /\ \E controlType \in ControlTypes, hasSchema \in BOOLEAN, dbOk \in BOOLEAN :
        /\ frameLog' = Append(frameLog, [conn |-> c, kind |-> "control", id |-> NoId,
                                         ctl |-> controlType])
        /\ schemaJson' = handleControl(schemaJson, connSid[c], controlType,
                                       hasSchema, dbOk, frameSeq + 1)
    /\ UNCHANGED <<agents, hubMu, connectedAt, connSid, transportClosed,
                   closed, closeCount, failCount, superseded, hpc, rpc, crashed>>
    /\ UNCHANGED <<callVars, chanVars, viewVars, bcVars>>
    /\ UNCHANGED <<peerFrames, wrVars, agentVars>>

\* The slot a frame with the given id resolves.
ResolveKeyFixed(idRaw) == CallerId
ResolveKey(idRaw) == idRaw

\* A frame with a non-empty "id" and no "_control":
\* if ch := a.removePending(idKey); ch != nil { select {ch <- data}; close(ch) }
readLoop_Response(c) ==
    /\ Running
    /\ rpc[c] = "read"
    /\ ~transportClosed[c]
    /\ frameSeq < MaxFrames
    /\ \E f \in peerFrames : Classify(f) = "response" /\ lastShape' = f
    /\ \E idRaw \in Ids :
        /\ frameLog' = Append(frameLog, [conn |-> c, kind |-> "response", id |-> idRaw, ctl |-> NoControl])
        /\ LET rm == removePending(c, ResolveKey(idRaw))
               d  == Deliver(chBuf, chClosed, chSends, rm.ch, Frame(idRaw, frameSeq + 1))
           IN  IF rm.ch # NoCall
               THEN /\ pending' = rm.table
                    /\ chBuf' = d.buf
                    /\ chClosed' = d.closed
                    /\ chSends' = d.sends
                    /\ chanPanic' = (chanPanic \/ d.panic)
               ELSE UNCHANGED chanVars
    /\ UNCHANGED <<hubVars, callVars, viewVars, bcVars>>
    /\ UNCHANGED <<peerFrames, wrVars, agentVars>>

\* ----------------------------------------- App.handleServerRPC / AgentConn.Call
\* minRole := roleForMethod(req.Method); a role that does not meet it is
\* answered "forbidden" and audited, before the hub is asked anything.
\* agent := a.Hub.AgentFor(serverID); nil is answered "agent not connected".
AgentFor(serverID) == agents[serverID]

\* What handleServerRPC writes to the caller, from what AgentFor and Call
\* returned: http.Error(w, "agent not connected", 503) when there is no
\* connection, http.Error(w, err.Error(), 502) when Call returned an error,
\* else the payload.
StatusOK == 200
StatusBadGateway == 502
StatusServiceUnavailable == 503
StatusForbidden == 403

handleServerRPC_RespondOK(how, resp) == [status |-> StatusOK, body |-> resp]
handleServerRPC_Respond(how, resp) ==
    IF how = "forbidden"
    THEN [status |-> StatusForbidden, body |-> "forbidden"]
    ELSE IF how = "agent not connected"
    THEN [status |-> StatusServiceUnavailable, body |-> "agent not connected"]
    ELSE IF how # "ok"
    THEN [status |-> StatusBadGateway, body |-> how]
    ELSE [status |-> StatusOK, body |-> resp]

handleServerRPC_Lookup(k) ==
    /\ Running
    /\ cpc[k] = "idle"
    /\ \A j \in Calls : j < k => cpc[j] # "idle"
    /\ \E r \in requests :
        /\ req' = [req EXCEPT ![k] = r]
        /\ IF ~Meets(r.role, roleForMethod(r.method))
           THEN /\ cpc' = [cpc EXCEPT ![k] = "done"]
                /\ outcome' = [outcome EXCEPT ![k] = "forbidden"]
                /\ audit' = recordAudit(audit, k, r.method, "error", "rbac denied")
                /\ UNCHANGED cconn
           ELSE /\ hubMu = 0
                /\ \E s \in ServerIds :
                    /\ cconn' = [cconn EXCEPT ![k] = AgentFor(s)]
                    /\ IF AgentFor(s) = NoConn
                       THEN /\ cpc' = [cpc EXCEPT ![k] = "done"]
                            /\ outcome' = [outcome EXCEPT ![k] = "agent not connected"]
                            /\ audit' = recordAudit(audit, k, r.method, "error", "agent disconnected")
                       ELSE /\ cpc' = [cpc EXCEPT ![k] = "Call"]
                            /\ UNCHANGED <<outcome, audit>>
    /\ UNCHANGED <<cid, result, requests>>
    /\ UNCHANGED <<hubVars, chanVars, viewVars, bcVars, frameLog>>
    /\ UNCHANGED <<lastShape, peerFrames, wrVars, agentVars>>

\* frame.ID is the caller's id if the body had one, else a fresh uuid;
\* a.pending[idKey] = respCh under pendMu.
Call_Register(k) ==
    /\ Running
    /\ cpc[k] = "Call"
    /\ \E idKey \in {CallerId, k} :
        /\ cid' = [cid EXCEPT ![k] = idKey]
        /\ pending' = [pending EXCEPT ![cconn[k]][idKey] = k]
    /\ cpc' = [cpc EXCEPT ![k] = "write"]
    /\ UNCHANGED <<cconn, outcome, result, rpcVars, chBuf, chClosed, chSends, chanPanic>>
    /\ UNCHANGED <<hubVars, viewVars, bcVars, frameLog>>
    /\ UNCHANGED <<lastShape, peerFrames, wrVars, agentVars>>

\* The error paths of Call closing the call's own respCh, whether or not it
\* is still in the table.
Call_AbandonOwn(k, how) ==
    /\ pending' = removePending(cconn[k], cid[k]).table
    /\ chClosed' = [chClosed EXCEPT ![k] = TRUE]
    /\ chanPanic' = (chanPanic \/ chClosed[k])
    /\ cpc' = [cpc EXCEPT ![k] = "done"]
    /\ outcome' = [outcome EXCEPT ![k] = how]
    /\ audit' = recordAudit(audit, k, req[k].method, "error", how)
    /\ UNCHANGED <<cconn, cid, result, requests, req, chBuf, chSends>>
    /\ UNCHANGED <<hubVars, viewVars, bcVars, frameLog>>
    /\ UNCHANGED <<lastShape, peerFrames, wrVars, agentVars>>

\* The error paths of Call: if ch := a.removePending(idKey); ch != nil { close(ch) }
Call_Abandon(k, how) ==
    LET rm == removePending(cconn[k], cid[k]) IN
    /\ pending' = rm.table
    /\ IF rm.ch # NoCall
       THEN /\ chClosed' = [chClosed EXCEPT ![rm.ch] = TRUE]
            /\ chanPanic' = (chanPanic \/ chClosed[rm.ch])
       ELSE UNCHANGED <<chClosed, chanPanic>>
    /\ cpc' = [cpc EXCEPT ![k] = "done"]
    /\ outcome' = [outcome EXCEPT ![k] = how]
    /\ audit' = recordAudit(audit, k, req[k].method, "error", how)
    /\ UNCHANGED <<cconn, cid, result, requests, req, chBuf, chSends>>
    /\ UNCHANGED <<hubVars, viewVars, bcVars, frameLog>>
    /\ UNCHANGED <<lastShape, peerFrames, wrVars, agentVars>>

\* json.Marshal(frame) fails, or a.write fails (closed transport, network
\* error, or the context expired while writing).
Call_SendError(k) ==
    /\ Running
    /\ cpc[k] = "write"
    /\ Call_Abandon(k, "send error")

Call_Write(k) ==
    /\ Running
    /\ cpc[k] = "write"
    /\ ~transportClosed[cconn[k]]
    /\ cpc' = [cpc EXCEPT ![k] = "wait"]
    /\ UNCHANGED <<cconn, cid, outcome, result, rpcVars>>
    /\ UNCHANGED <<hubVars, chanVars, viewVars, bcVars, frameLog>>
    /\ UNCHANGED <<lastShape, peerFrames, wrVars, agentVars>>

\* select: case <-ctx.Done()
Call_Timeout(k) ==
    /\ Running
    /\ cpc[k] = "wait"
    /\ Call_Abandon(k, "timeout")

\* select: case <-a.closed
Call_Closed(k) ==
    /\ Running
    /\ cpc[k] = "wait"
    /\ closed[cconn[k]]
    /\ Call_Abandon(k, "agent disconnected")

\* select: case resp := <-respCh; a closed empty channel yields nil
Call_Receive(k) ==
    /\ Running
    /\ cpc[k] = "wait"
    /\ chBuf[k] # Empty \/ chClosed[k]
    /\ LET resp == IF chBuf[k] # Empty THEN chBuf[k] ELSE Nil IN
        /\ chBuf' = [chBuf EXCEPT ![k] = Empty]
        /\ IF resp = Nil
           THEN /\ outcome' = [outcome EXCEPT ![k] = "agent disconnected"]
                /\ audit' = recordAudit(audit, k, req[k].method, "error", "agent disconnected")
                /\ UNCHANGED result
           ELSE /\ outcome' = [outcome EXCEPT ![k] = "ok"]
                /\ audit' = recordAudit(audit, k, req[k].method, "ok", NoError)
                /\ result' = [result EXCEPT ![k] = resp]
    /\ cpc' = [cpc EXCEPT ![k] = "done"]
    /\ UNCHANGED <<cconn, cid, requests, req, pending, chClosed, chSends, chanPanic>>
    /\ UNCHANGED <<hubVars, viewVars, bcVars, frameLog>>
    /\ UNCHANGED <<lastShape, peerFrames, wrVars, agentVars>>

\* ------------------------------------------- Hub.RegisterClient / removeClient
RegisterClient(cl, serverID, client) ==
    [t \in DOMAIN cl \cup {serverID} |->
        IF t = serverID
        THEN (IF serverID \in DOMAIN cl THEN cl[serverID] ELSE {}) \cup {client}
        ELSE cl[t]]

removeClientKeepsEmpty(cl, serverID, client) ==
    IF serverID \in DOMAIN cl
    THEN [cl EXCEPT ![serverID] = @ \ {client}]
    ELSE cl

removeClientDropsAll(cl, serverID, client) ==
    [t \in DOMAIN cl \ {serverID} |-> cl[t]]

removeClient(cl, serverID, client) ==
    IF serverID \in DOMAIN cl
    THEN IF cl[serverID] \ {client} = {}
         THEN [t \in DOMAIN cl \ {serverID} |-> cl[t]]
         ELSE [cl EXCEPT ![serverID] = @ \ {client}]
    ELSE cl

\* handleServerEvents: accept the socket, RegisterClient, then read until
\* the socket fails.  Viewers are accepted in index order.
handleServerEvents_Register(v) ==
    /\ Running
    /\ vpc[v] = "idle"
    /\ \A u \in Viewers : u < v => vpc[u] # "idle"
    /\ WriteLockFree
    /\ \E s \in ServerIds :
        /\ vSid' = [vSid EXCEPT ![v] = s]
        /\ clients' = RegisterClient(clients, s, v)
    /\ vpc' = [vpc EXCEPT ![v] = "serving"]
    /\ UNCHANGED <<vClosed, vRecv>>
    /\ UNCHANGED <<hubVars, callVars, chanVars, bcVars, frameLog>>
    /\ UNCHANGED <<lastShape, peerFrames, wrVars, agentVars>>

\* conn.Read fails; the deferred removeClient and conn.Close run.
handleServerEvents_Exit(v) ==
    /\ Running
    /\ vpc[v] = "serving"
    /\ WriteLockFree
    /\ clients' = removeClient(clients, vSid[v], v)
    /\ vClosed' = [vClosed EXCEPT ![v] = TRUE]
    /\ vpc' = [vpc EXCEPT ![v] = "done"]
    /\ UNCHANGED <<vSid, vRecv>>
    /\ UNCHANGED <<hubVars, callVars, chanVars, bcVars, frameLog>>
    /\ UNCHANGED <<lastShape, peerFrames, wrVars, agentVars>>

\* --------------------------------------------------------------- Hub.broadcast
\* A frame with "method" and neither "_control" nor "id" is a notification.
\* broadcast copies the viewer set under h.mu.RLock.
ViewersOf(cl, serverID) == IF serverID \in DOMAIN cl THEN cl[serverID] ELSE {}
Snapshot(serverID) == ViewersOf(clients, serverID)

\* The loop over the copy ending after its first viewer.
AfterViewerBreak(rest) == {}

\* After a viewer has been dealt with: `continue` with the rest of the slice.
AfterViewer(rest) == rest

readLoop_Notification(c) ==
    /\ Running
    /\ rpc[c] = "read"
    /\ ~transportClosed[c]
    /\ frameSeq < MaxFrames
    /\ hubMu = 0
    /\ frameLog' = Append(frameLog, [conn |-> c, kind |-> "notification", id |-> NoId, ctl |-> NoControl])
    /\ \E f \in peerFrames : Classify(f) = "notification" /\ lastShape' = f
    /\ bFrame' = [bFrame EXCEPT ![c] = frameSeq + 1]
    /\ bSnap' = [bSnap EXCEPT ![c] = Snapshot(connSid[c])]
    /\ blog' = [blog EXCEPT ![frameSeq + 1] =
                    [NoBroadcast EXCEPT !.server = connSid[c], !.snap = Snapshot(connSid[c])]]
    /\ hubRd' = hubRd \cup {c}
    /\ rpc' = [rpc EXCEPT ![c] = "RUnlock"]
    /\ UNCHANGED bFail
    /\ UNCHANGED <<agents, hubMu, connectedAt, schemaJson, connSid, transportClosed,
                   closed, closeCount, failCount, superseded, hpc, crashed>>
    /\ UNCHANGED <<callVars, chanVars, viewVars>>
    /\ UNCHANGED <<peerFrames, wrVars, agentVars>>

\* broadcast sending while it still holds the read lock.
broadcast_RUnlockLate(c) ==
    /\ Running
    /\ rpc[c] = "RUnlock"
    /\ rpc' = [rpc EXCEPT ![c] = IF bSnap[c] = {} THEN "read" ELSE "broadcast"]
    /\ hubRd' = IF bSnap[c] = {} THEN hubRd \ {c} ELSE hubRd
    /\ UNCHANGED <<bFrame, bSnap, bFail, blog>>
    /\ UNCHANGED <<agents, hubMu, connectedAt, schemaJson, connSid, transportClosed,
                   closed, closeCount, failCount, superseded, hpc, crashed>>
    /\ UNCHANGED <<callVars, chanVars, viewVars, frameLog>>
    /\ UNCHANGED <<lastShape, peerFrames, wrVars, agentVars>>

\* h.mu.RUnlock(): the copy is complete; the loop over the copy follows.
broadcast_RUnlock(c) ==
    /\ Running
    /\ rpc[c] = "RUnlock"
    /\ hubRd' = hubRd \ {c}
    /\ rpc' = [rpc EXCEPT ![c] = IF bSnap[c] = {} THEN "read" ELSE "broadcast"]
    /\ UNCHANGED <<bFrame, bSnap, bFail, blog>>
    /\ UNCHANGED <<agents, hubMu, connectedAt, schemaJson, connSid, transportClosed,
                   closed, closeCount, failCount, superseded, hpc, crashed>>
    /\ UNCHANGED <<callVars, chanVars, viewVars, frameLog>>
    /\ UNCHANGED <<lastShape, peerFrames, wrVars, agentVars>>

\* client.Send succeeds: the payload is written to the viewer.
broadcast_Send(c) ==
    /\ Running
    /\ rpc[c] = "broadcast"
    /\ \E v \in bSnap[c] :
        /\ ~vClosed[v]
        /\ vRecv' = [vRecv EXCEPT ![v] = @ \cup {bFrame[c]}]
        /\ bSnap' = [bSnap EXCEPT ![c] = AfterViewer(@ \ {v})]
        /\ blog' = [blog EXCEPT ![bFrame[c]].sent = @ \cup {v}]
        /\ rpc' = [rpc EXCEPT ![c] = IF AfterViewer(bSnap[c] \ {v}) = {} THEN "read" ELSE "broadcast"]
    /\ UNCHANGED <<bFrame, bFail, hubRd, clients, vpc, vSid, vClosed>>
    /\ UNCHANGED <<agents, hubMu, connectedAt, schemaJson, connSid, transportClosed,
                   closed, closeCount, failCount, superseded, hpc, crashed>>
    /\ UNCHANGED <<callVars, chanVars, frameLog>>
    /\ UNCHANGED <<lastShape, peerFrames, wrVars, agentVars>>

\* client.Send fails (closed socket, network error or the 5 s deadline):
\* client.Close, then h.removeClient.
broadcast_SendError(c) ==
    /\ Running
    /\ rpc[c] = "broadcast"
    /\ \E v \in bSnap[c] :
        /\ vClosed' = [vClosed EXCEPT ![v] = TRUE]
        /\ bFail' = [bFail EXCEPT ![c] = v]
        /\ bSnap' = [bSnap EXCEPT ![c] = @ \ {v}]
        /\ blog' = [blog EXCEPT ![bFrame[c]].failed = @ \cup {v}]
    /\ rpc' = [rpc EXCEPT ![c] = "removeClient"]
    /\ UNCHANGED <<bFrame, hubRd, clients, vpc, vSid, vRecv>>
    /\ UNCHANGED <<agents, hubMu, connectedAt, schemaJson, connSid, transportClosed,
                   closed, closeCount, failCount, superseded, hpc, crashed>>
    /\ UNCHANGED <<callVars, chanVars, frameLog>>
    /\ UNCHANGED <<lastShape, peerFrames, wrVars, agentVars>>

broadcast_RemoveClient(c) ==
    /\ Running
    /\ rpc[c] = "removeClient"
    /\ WriteLockFree
    /\ clients' = removeClient(clients, connSid[c], bFail[c])
    /\ blog' = [blog EXCEPT ![bFrame[c]].removed =
                    @ \cup {v \in Viewers : \E s \in ServerIds :
                                /\ v \in ViewersOf(clients, s)
                                /\ v \notin ViewersOf(removeClient(clients, connSid[c], bFail[c]), s)}]
    /\ bFail' = [bFail EXCEPT ![c] = 0]
    /\ bSnap' = [bSnap EXCEPT ![c] = AfterViewer(@)]
    /\ rpc' = [rpc EXCEPT ![c] = IF AfterViewer(bSnap[c]) = {} THEN "read" ELSE "broadcast"]
    /\ UNCHANGED <<bFrame, hubRd, vpc, vSid, vClosed, vRecv>>
    /\ UNCHANGED <<agents, hubMu, connectedAt, schemaJson, connSid, transportClosed,
                   closed, closeCount, failCount, superseded, hpc, crashed>>
    /\ UNCHANGED <<callVars, chanVars, frameLog>>
    /\ UNCHANGED <<lastShape, peerFrames, wrVars, agentVars>>

\* ======================================================================
\* The agent process (apps/agent): main's supervisor loop, runOnce and the
\* bridge session with its two relay loops and its discovery loop.
\* ======================================================================

\* main has not returned and no goroutine has panicked.
AgentRunning == sup # "stopped" /\ ~agentPanic

\* The session's context (derived from the signal context) is done.
SessDone == sessCtx \/ cancelled

\* signal.NotifyContext: SIGINT or SIGTERM arrives.
signal_Cancel ==
    /\ AgentRunning
    /\ ~cancelled
    /\ cancelled' = TRUE
    /\ UNCHANGED <<cfg, sup, backoff, wait, metrics, lastRun, runErr, boSeq, waitLog, telVars>>
    /\ UNCHANGED <<sessVars, pipeVars, discVars, hubSide>>

\* for { if ctx.Err() != nil { return }; metrics.recordSessionStart(); ...
main_LoopTop ==
    /\ AgentRunning
    /\ sup = "top"
    /\ IF cancelled
       THEN sup' = "stopped" /\ UNCHANGED metrics
       ELSE /\ metrics.sessions < MaxAttempts
            /\ metrics' = recordSessionStart(metrics)
            /\ sup' = "dialAPI"
    /\ UNCHANGED <<loopVars, runErr>>
    /\ UNCHANGED <<sessVars, pipeVars, discVars, hubSide>>

\* runOnce: websocket.Dial of the control plane.  A dial under a cancelled
\* context fails.
runOnce_DialAPI ==
    /\ AgentRunning
    /\ sup = "dialAPI"
    /\ \E ok \in BOOLEAN :
        /\ ok => ~cancelled
        /\ IF ok
           THEN /\ metrics' = recordDialSuccess(metrics, "api")
                /\ apiConn' = "open"
                /\ sup' = "dialMC"
                /\ UNCHANGED <<runErr, lastRun>>
           ELSE /\ metrics' = recordDialFailure(metrics, "api", IF cancelled THEN "cancelled" ELSE "dial")
                /\ apiConn' = "none"
                /\ runErr' = IF cancelled THEN "cancelled" ELSE "dial"
                /\ lastRun' = "dialAPI"
                /\ sup' = "returned"
    /\ mcConn' = "none"
    /\ UNCHANGED <<cfg, cancelled, backoff, wait, boSeq, waitLog, telVars>>
    /\ UNCHANGED <<sessCtx, runPc, errCh, agentPanic, pipeVars, discVars, hubSide>>

\* runOnce returning the managed endpoint's dial error with the control
\* plane transport left open.
runOnce_DialMCLeak ==
    /\ AgentRunning
    /\ sup = "dialMC"
    /\ \E ok \in BOOLEAN :
        /\ ok => ~cancelled
        /\ IF ok
           THEN /\ metrics' = recordDialSuccess(metrics, "minecraft")
                /\ mcConn' = "open"
                /\ newSession
                /\ sup' = "bridging"
                /\ UNCHANGED <<apiConn, runErr, lastRun>>
           ELSE /\ metrics' = recordDialFailure(metrics, "minecraft", IF cancelled THEN "cancelled" ELSE "dial")
                /\ runErr' = IF cancelled THEN "cancelled" ELSE "dial"
                /\ lastRun' = "dialMC"
                /\ sup' = "returned"
                /\ UNCHANGED <<apiConn, mcConn, sessCtx, runPc, errCh, pipeVars, discVars>>
    /\ UNCHANGED <<cfg, cancelled, backoff, wait, boSeq, waitLog, telVars, agentPanic>>
    /\ UNCHANGED hubSide

\* runOnce: websocket.Dial of the managed endpoint; on failure the control
\* plane transport is closed; on success newSession.
runOnce_DialMC ==
    /\ AgentRunning
    /\ sup = "dialMC"
    /\ \E ok \in BOOLEAN :
        /\ ok => ~cancelled
        /\ IF ok
           THEN /\ metrics' = recordDialSuccess(metrics, "minecraft")
                /\ mcConn' = "open"
                /\ newSession
                /\ sup' = "bridging"
                /\ UNCHANGED <<apiConn, runErr, lastRun>>
           ELSE /\ metrics' = recordDialFailure(metrics, "minecraft", IF cancelled THEN "cancelled" ELSE "dial")
                /\ apiConn' = "closed"
                /\ runErr' = IF cancelled THEN "cancelled" ELSE "dial"
                /\ lastRun' = "dialMC"
                /\ sup' = "returned"
                /\ UNCHANGED <<mcConn, sessCtx, runPc, errCh, pipeVars, discVars>>
    /\ UNCHANGED <<cfg, cancelled, backoff, wait, boSeq, waitLog, telVars, agentPanic>>
    /\ UNCHANGED hubSide

\* session.run: recordBridgeEstablished; go discoverLoop; go both pipes.
run_Start ==
    /\ AgentRunning
    /\ runPc = "start"
    /\ metrics' = recordBridgeEstablished(metrics)
    /\ dpc' = "loop"
    /\ pa' = "read"
    /\ pb' = "read"
    /\ runPc' = "select"
    /\ UNCHANGED <<loopVars, sup, runErr>>
    /\ UNCHANGED <<apiConn, mcConn, sessCtx, errCh, agentPanic>>
    /\ UNCHANGED <<paData, aRead, pbData, bLog, handledLog, toB, toA>>
    /\ UNCHANGED <<sPending, dch, dAttempt, dResult, dBackoff, dLog>>
    /\ UNCHANGED hubSide

\* select: case <-ctx.Done(): s.close(); return ctx.Err()
run_CtxDone ==
    /\ AgentRunning
    /\ runPc = "select"
    /\ cancelled
    /\ runErr' = "cancelled"
    /\ runPc' = "close_pending"
    /\ UNCHANGED <<loopVars, sup, metrics>>
    /\ UNCHANGED <<apiConn, mcConn, sessCtx, errCh, agentPanic>>
    /\ UNCHANGED <<pipeVars, discVars, hubSide>>

\* select: case err := <-errCh: s.close(); return err
run_ErrCh ==
    /\ AgentRunning
    /\ runPc = "select"
    /\ errCh # <<>>
    /\ runErr' = Head(errCh)
    /\ errCh' = Tail(errCh)
    /\ runPc' = "close_pending"
    /\ UNCHANGED <<loopVars, sup, metrics>>
    /\ UNCHANGED <<apiConn, mcConn, sessCtx, agentPanic>>
    /\ UNCHANGED <<pipeVars, discVars, hubSide>>

\* session.close leaving the pending table as it is.
close_PendingSkip ==
    /\ AgentRunning
    /\ runPc = "close_pending"
    /\ runPc' = "close_api"
    /\ UNCHANGED <<supVars, apiConn, mcConn, sessCtx, errCh, agentPanic, pipeVars>>
    /\ UNCHANGED <<discVars, hubSide>>

\* session.close, under pendMu: close(ch) and delete every pending entry.
close_Pending ==
    /\ AgentRunning
    /\ runPc = "close_pending"
    /\ dch' = [d \in Discovers |->
                 IF d \in sPending THEN [dch[d] EXCEPT !.closed = TRUE] ELSE dch[d]]
    /\ agentPanic' = (agentPanic \/ \E d \in sPending : dch[d].closed)
    /\ sPending' = {}
    /\ runPc' = "close_api"
    /\ UNCHANGED <<supVars, apiConn, mcConn, sessCtx, errCh, pipeVars>>
    /\ UNCHANGED <<dpc, dAttempt, dResult, dBackoff, dLog>>
    /\ UNCHANGED hubSide

\* s.apiConn.Close(...)
close_API ==
    /\ AgentRunning
    /\ runPc = "close_api"
    /\ apiConn' = "closed"
    /\ runPc' = "close_mc"
    /\ UNCHANGED <<supVars, mcConn, sessCtx, errCh, agentPanic>>
    /\ UNCHANGED <<pipeVars, discVars, hubSide>>

\* session.close returning without closing transport B.
close_MCSkip ==
    /\ AgentRunning
    /\ runPc = "close_mc"
    /\ runPc' = "returned"
    /\ sessCtx' = TRUE
    /\ lastRun' = "bridged"
    /\ sup' = "returned"
    /\ UNCHANGED <<cfg, cancelled, backoff, wait, metrics, runErr, boSeq, waitLog, telVars>>
    /\ UNCHANGED <<apiConn, mcConn, errCh, agentPanic>>
    /\ UNCHANGED <<pipeVars, discVars, hubSide>>

\* s.mcConn.Close(...); run returns, runOnce's deferred cancel() runs and
\* runOnce returns run's error to main.
close_MC ==
    /\ AgentRunning
    /\ runPc = "close_mc"
    /\ mcConn' = "closed"
    /\ runPc' = "returned"
    /\ sessCtx' = TRUE
    /\ lastRun' = "bridged"
    /\ sup' = "returned"
    /\ UNCHANGED <<cfg, cancelled, backoff, wait, metrics, runErr, boSeq, waitLog, telVars>>
    /\ UNCHANGED <<apiConn, errCh, agentPanic>>
    /\ UNCHANGED <<pipeVars, discVars, hubSide>>

\* duration := time.Since(started): beyond a trivial threshold or not.
Durations == {"trivial", "long"}

\* err != nil and neither ctx.Err() != nil nor errors.Is(err, context.Canceled):
\* recordSessionFailure; wait := applyJitter(backoff, cfg.BackoffJitter).
main_Failed ==
    /\ AgentRunning
    /\ sup = "returned"
    /\ runErr # "none"
    /\ ~(cancelled \/ runErr = "cancelled")
    /\ \E duration \in Durations, n \in 0..cfg.jitter, randOk \in BOOLEAN :
        /\ n < cfg.jitter \/ n = 0
        /\ metrics' = recordSessionFailure(metrics, duration, runErr)
        /\ wait' = applyJitter(backoff, cfg.jitter, n, randOk)
        /\ waitLog' = Append(waitLog,
                [backoff |-> backoff,
                 wait |-> applyJitter(backoff, cfg.jitter, n, randOk),
                 failures |-> metrics.failures + 1])
    /\ sup' = "waiting"
    /\ UNCHANGED <<cfg, cancelled, backoff, lastRun, runErr, boSeq, telVars>>
    /\ UNCHANGED <<sessVars, pipeVars, discVars, hubSide>>

\* err != nil and (ctx.Err() != nil || errors.Is(err, context.Canceled)):
\* metrics.recordSessionFailure(duration, err); return
main_FailedCancelled ==
    /\ AgentRunning
    /\ sup = "returned"
    /\ runErr # "none"
    /\ cancelled \/ runErr = "cancelled"
    /\ \E duration \in Durations :
        metrics' = recordSessionFailure(metrics, duration, runErr)
    /\ sup' = "stopped"
    /\ UNCHANGED <<loopVars, runErr>>
    /\ UNCHANGED <<sessVars, pipeVars, discVars, hubSide>>

\* err == nil: recordSessionSuccess; backoff = cfg.BackoffInitial; attempt = 1
main_Succeeded ==
    /\ AgentRunning
    /\ sup = "returned"
    /\ runErr = "none"
    /\ \E duration \in Durations :
        metrics' = recordSessionSuccess(metrics, duration)
    /\ backoff' = initialBackoff(cfg)
    /\ boSeq' = <<initialBackoff(cfg)>>
    /\ sup' = "top"
    /\ UNCHANGED <<cfg, cancelled, wait, lastRun, runErr, waitLog, telVars>>
    /\ UNCHANGED <<sessVars, pipeVars, discVars, hubSide>>

\* select: case <-time.After(wait); then backoff = nextBackoff(...); continue
main_WaitElapsed ==
    /\ AgentRunning
    /\ sup = "waiting"
    /\ backoff' = nextBackoff(backoff, cfg.multiplier, cfg.max, cfg.conv)
    /\ boSeq' = Append(boSeq, nextBackoff(backoff, cfg.multiplier, cfg.max, cfg.conv))
    /\ sup' = "top"
    /\ UNCHANGED <<cfg, cancelled, wait, metrics, lastRun, runErr, waitLog, telVars>>
    /\ UNCHANGED <<sessVars, pipeVars, discVars, hubSide>>

\* select: case <-ctx.Done(): return
main_WaitCancelled ==
    /\ AgentRunning
    /\ sup = "waiting"
    /\ cancelled
    /\ sup' = "stopped"
    /\ UNCHANGED <<loopVars, metrics, runErr>>
    /\ UNCHANGED <<sessVars, pipeVars, discVars, hubSide>>

\* ------------------------------------------------------------ pipeAPIToMC
\* s.apiConn.Read succeeds: possible while A is open and the context live.
pipeAPIToMC_Read ==
    /\ AgentRunning
    /\ pa = "read"
    /\ apiConn = "open" /\ ~SessDone
    /\ aRead < MaxRelay
    /\ aRead' = aRead + 1
    /\ paData' = aRead + 1
    /\ pa' = "write"
    /\ UNCHANGED <<supVars, sessVars, pipeBVars, toB, toA, discVars, hubSide>>

\* A relay loop returns the error of a failed Read or Write: the goroutine
\* started by run sends it on errCh (capacity 2, two senders).
pipeAPIToMC_ReadError ==
    /\ AgentRunning
    /\ pa = "read"
    /\ errCh' = Append(errCh, "A read")
    /\ pa' = "done"
    /\ UNCHANGED <<supVars, apiConn, mcConn, sessCtx, runPc, agentPanic>>
    /\ UNCHANGED <<paData, aRead, pipeBVars, toB, toA, discVars, hubSide>>

\* pipeAPIToMC writing each frame to B twice.
pipeAPIToMC_WriteTwice ==
    /\ AgentRunning
    /\ pa = "write"
    /\ mcConn = "open" /\ ~SessDone
    /\ toB' = toB \o <<[src |-> "A", n |-> paData], [src |-> "A", n |-> paData]>>
    /\ metrics' = recordForwardAPIToMC(metrics)
    /\ pa' = "read"
    /\ UNCHANGED <<loopVars, sup, runErr>>
    /\ UNCHANGED <<sessVars, paData, aRead, pipeBVars, toA, discVars, hubSide>>

\* s.mcConn.Write(data); recordForwardAPIToMC
pipeAPIToMC_Write ==
    /\ AgentRunning
    /\ pa = "write"
    /\ mcConn = "open" /\ ~SessDone
    /\ toB' = Append(toB, [src |-> "A", n |-> paData])
    /\ metrics' = recordForwardAPIToMC(metrics)
    /\ pa' = "read"
    /\ UNCHANGED <<loopVars, sup, runErr>>
    /\ UNCHANGED <<sessVars, paData, aRead, pipeBVars, toA, discVars, hubSide>>

pipeAPIToMC_WriteError ==
    /\ AgentRunning
    /\ pa = "write"
    /\ errCh' = Append(errCh, "B write")
    /\ pa' = "done"
    /\ UNCHANGED <<supVars, apiConn, mcConn, sessCtx, runPc, agentPanic>>
    /\ UNCHANGED <<paData, aRead, pipeBVars, toB, toA, discVars, hubSide>>

\* ------------------------------------------------------------ pipeMCToAPI
\* A frame of the managed endpoint: whether it is a JSON object, its id
\* (none, an id the bridge did not issue, or the id of a self-issued call
\* whose request the endpoint has been sent) and whether it carries an error
\* member, which only callMinecraft reads, of the response to its own call.
ForeignId == 0

BFrames ==
    {fr \in [decodable : BOOLEAN, id : {NoId, ForeignId} \cup Discovers, error : BOOLEAN] :
        /\ ~fr.decodable => (fr.id = NoId /\ ~fr.error)
        /\ fr.error => fr.id \in Discovers
        /\ fr.id \in Discovers => [src |-> "call", n |-> fr.id] \in {toB[i] : i \in 1..Len(toB)}}

\* handleMCMessage: TRUE when the frame's id has a pending entry.
handleMCMessageForwardsAll(fr, pend) == FALSE
handleMCMessage(fr, pend) == fr.decodable /\ fr.id # NoId /\ fr.id \in pend

\* s.mcConn.Read succeeds and handleMCMessage runs: a frame whose id is
\* pending is removed from the table, sent to its channel and the channel
\* closed; any other frame is kept for the write to A.
pipeMCToAPI_Read ==
    /\ AgentRunning
    /\ pb = "read"
    /\ mcConn = "open" /\ ~SessDone
    /\ Len(bLog) < MaxRelay
    /\ \E fr \in BFrames :
        LET n == Len(bLog) + 1
            handled == handleMCMessage(fr, sPending)
        IN  /\ bLog' = Append(bLog, fr)
            /\ handledLog' = Append(handledLog, handled)
            /\ IF handled
               THEN /\ sPending' = sPending \ {fr.id}
                    /\ dch' = [dch EXCEPT ![fr.id] = [buf |-> n, closed |-> TRUE]]
                    /\ agentPanic' = (agentPanic \/ dch[fr.id].closed)
                    /\ pb' = "read"
                    /\ UNCHANGED pbData
               ELSE /\ pb' = "write"
                    /\ pbData' = n
                    /\ UNCHANGED <<sPending, dch, agentPanic>>
    /\ UNCHANGED <<supVars, apiConn, mcConn, sessCtx, runPc, errCh>>
    /\ UNCHANGED <<pipeAVars, toB, toA, dpc, dAttempt, dResult, dBackoff, dLog>>
    /\ UNCHANGED hubSide

pipeMCToAPI_ReadError ==
    /\ AgentRunning
    /\ pb = "read"
    /\ errCh' = Append(errCh, "B read")
    /\ pb' = "done"
    /\ UNCHANGED <<supVars, apiConn, mcConn, sessCtx, runPc, agentPanic>>
    /\ UNCHANGED <<pipeAVars, pbData, bLog, handledLog, toB, toA, discVars, hubSide>>

\* s.apiConn.Write(data); recordForwardMCToAPI
pipeMCToAPI_Write ==
    /\ AgentRunning
    /\ pb = "write"
    /\ apiConn = "open" /\ ~SessDone
    /\ toA' = Append(toA, [src |-> "B", n |-> pbData])
    /\ metrics' = recordForwardMCToAPI(metrics)
    /\ pb' = "read"
    /\ UNCHANGED <<loopVars, sup, runErr>>
    /\ UNCHANGED <<sessVars, pipeAVars, pbData, bLog, handledLog, toB, discVars, hubSide>>

pipeMCToAPI_WriteError ==
    /\ AgentRunning
    /\ pb = "write"
    /\ errCh' = Append(errCh, "A write")
    /\ pb' = "done"
    /\ UNCHANGED <<supVars, apiConn, mcConn, sessCtx, runPc, agentPanic>>
    /\ UNCHANGED <<pipeAVars, pbData, bLog, handledLog, toB, toA, discVars, hubSide>>

\* ------------------------------------------------------------ discoverLoop
\* The errors sendDiscover can return: context.Canceled, an error carrying a
\* websocket close status, or any other (an error response, a timeout, a
\* closed channel, a network failure).
ErrKinds == {"canceled", "closed", "other"}

\* The backoff doubling without a cap.
nextDiscoverBackoffUncapped(b) == b * 2

\* if backoff < time.Minute { backoff *= 2; if backoff > time.Minute { ... } }
nextDiscoverBackoff(b) ==
    IF b < 60 THEN (IF b * 2 > 60 THEN 60 ELSE b * 2) ELSE b

\* discoverLoop recording a failure for every error, and retrying.
discoverLoop_OnErrorCountAll(kind) ==
    /\ dResult' = kind
    /\ dLog' = Append(dLog, kind)
    /\ metrics' = recordDiscover(metrics, FALSE, kind)
    /\ dpc' = "backoff"

\* discoverLoop after sendDiscover returned err: return on context.Canceled
\* or a close status; otherwise recordDiscover(false, err) and back off.
discoverLoop_OnError(kind) ==
    /\ dResult' = kind
    /\ dLog' = Append(dLog, kind)
    /\ IF kind \in {"canceled", "closed"}
       THEN dpc' = "done" /\ UNCHANGED metrics
       ELSE /\ metrics' = recordDiscover(metrics, FALSE, kind)
            /\ dpc' = "backoff"

\* select { case <-ctx.Done(): return ... } at the top of the loop and in
\* the backoff wait.
discoverLoop_CtxDone ==
    /\ AgentRunning
    /\ dpc \in {"loop", "backoff"}
    /\ SessDone
    /\ dpc' = "done"
    /\ UNCHANGED <<supVars, sessVars, pipeVars, hubSide>>
    /\ UNCHANGED <<sPending, dch, dAttempt, dResult, dBackoff, dLog>>

\* attempt++; sendDiscover; callMinecraft: registerPending(idKey) with a
\* fresh id.
discoverLoop_Call ==
    /\ AgentRunning
    /\ dpc = "loop"
    /\ ~SessDone
    /\ dAttempt < dLimit
    /\ dAttempt' = dAttempt + 1
    /\ sPending' = sPending \cup {dAttempt + 1}
    /\ dpc' = "call_write"
    /\ UNCHANGED <<supVars, sessVars, pipeVars, hubSide>>
    /\ UNCHANGED <<dch, dResult, dBackoff, dLog>>

\* s.mcConn.Write(payload) of the request
callMinecraft_Write ==
    /\ AgentRunning
    /\ dpc = "call_write"
    /\ mcConn = "open" /\ ~SessDone
    /\ toB' = Append(toB, [src |-> "call", n |-> dAttempt])
    /\ dpc' = "call_wait"
    /\ UNCHANGED <<supVars, sessVars, pipeAVars, pipeBVars, toA, hubSide>>
    /\ UNCHANGED <<sPending, dch, dAttempt, dResult, dBackoff, dLog>>

\* the write fails: s.removePending(idKey); return nil, err
callMinecraft_WriteError ==
    /\ AgentRunning
    /\ dpc = "call_write"
    /\ sPending' = sPending \ {dAttempt}
    /\ \E kind \in ErrKinds :
        /\ kind = "canceled" => SessDone
        /\ discoverLoop_OnError(kind)
    /\ UNCHANGED <<loopVars, sup, runErr, sessVars, pipeVars, hubSide>>
    /\ UNCHANGED <<dch, dAttempt, dBackoff>>

\* select: case <-ctx.Done(): s.removePending(idKey); return nil, ctx.Err()
\* (the 10 s deadline of sendDiscover, or the session's context)
callMinecraft_Timeout ==
    /\ AgentRunning
    /\ dpc = "call_wait"
    /\ sPending' = sPending \ {dAttempt}
    /\ \E kind \in {"canceled", "other"} :
        /\ kind = "canceled" => SessDone
        /\ discoverLoop_OnError(kind)
    /\ UNCHANGED <<loopVars, sup, runErr, sessVars, pipeVars, hubSide>>
    /\ UNCHANGED <<dch, dAttempt, dBackoff>>

\* select: case data := <-respCh.  nil (the channel was closed by
\* session.close) and an error response are errors; a result is published
\* next.
callMinecraft_Receive ==
    /\ AgentRunning
    /\ dpc = "call_wait"
    /\ dch[dAttempt].buf # NoFrame \/ dch[dAttempt].closed
    /\ dch' = [dch EXCEPT ![dAttempt].buf = NoFrame]
    /\ IF dch[dAttempt].buf # NoFrame /\ ~bLog[dch[dAttempt].buf].error
       THEN /\ dpc' = "publish"
            /\ dResult' = "result"
            /\ UNCHANGED <<metrics, dLog>>
       ELSE discoverLoop_OnError("other")
    /\ UNCHANGED <<loopVars, sup, runErr, sessVars, pipeVars, hubSide>>
    /\ UNCHANGED <<sPending, dAttempt, dBackoff>>

\* discoverLoop going on to its backoff after a success.
sendDiscover_PublishAndRetry ==
    /\ AgentRunning
    /\ dpc = "publish"
    /\ apiConn = "open" /\ ~SessDone
    /\ toA' = Append(toA, [src |-> "control", n |-> dAttempt])
    /\ metrics' = recordDiscover(metrics, TRUE, NoError)
    /\ dLog' = Append(dLog, "ok")
    /\ dpc' = "backoff"
    /\ UNCHANGED <<loopVars, sup, runErr, sessVars, pipeAVars, pipeBVars, toB, hubSide>>
    /\ UNCHANGED <<sPending, dch, dAttempt, dResult, dBackoff>>

\* sendDiscover: s.apiConn.Write of {"_control":"discover","schema":result};
\* discoverLoop: recordDiscover(true, nil); return
sendDiscover_Publish ==
    /\ AgentRunning
    /\ dpc = "publish"
    /\ apiConn = "open" /\ ~SessDone
    /\ toA' = Append(toA, [src |-> "control", n |-> dAttempt])
    /\ metrics' = recordDiscover(metrics, TRUE, NoError)
    /\ dLog' = Append(dLog, "ok")
    /\ dpc' = "done"
    /\ UNCHANGED <<loopVars, sup, runErr, sessVars, pipeAVars, pipeBVars, toB, hubSide>>
    /\ UNCHANGED <<sPending, dch, dAttempt, dResult, dBackoff>>

sendDiscover_PublishError ==
    /\ AgentRunning
    /\ dpc = "publish"
    /\ \E kind \in ErrKinds :
        /\ kind = "canceled" => SessDone
        /\ discoverLoop_OnError(kind)
    /\ UNCHANGED <<loopVars, sup, runErr, sessVars, pipeVars, hubSide>>
    /\ UNCHANGED <<sPending, dch, dAttempt, dBackoff>>

\* select: case <-time.After(backoff); then the backoff doubles up to a minute
discoverLoop_BackoffElapsed ==
    /\ AgentRunning
    /\ dpc = "backoff"
    /\ dBackoff' = nextDiscoverBackoff(dBackoff)
    /\ dpc' = "loop"
    /\ UNCHANGED <<supVars, sessVars, pipeVars, hubSide>>
    /\ UNCHANGED <<sPending, dch, dAttempt, dResult, dLog>>

\* ------------------------------------------------------------- telemetry
\* telemetry.loop: case <-ticker.C: t.snapshot()
telemetry_Tick ==
    /\ AgentRunning
    /\ telPc = "loop"
    /\ snaps < MaxSnaps
    /\ metrics' = snapshot(metrics)
    /\ lastSnap' = Emitted(metrics)
    /\ snaps' = snaps + 1
    /\ UNCHANGED <<cfg, sup, cancelled, backoff, wait, lastRun, runErr, boSeq, waitLog, telPc>>
    /\ UNCHANGED <<sessVars, pipeVars, discVars, hubSide>>

\* main returns: the deferred metrics.stop() closes stopCh and waits for
\* the loop, which takes a last snapshot and returns.
telemetry_Stop ==
    /\ sup = "stopped" /\ ~agentPanic
    /\ telPc = "loop"
    /\ metrics' = snapshot(metrics)
    /\ lastSnap' = Emitted(metrics)
    /\ snaps' = snaps + 1
    /\ telPc' = "done"
    /\ UNCHANGED <<cfg, sup, cancelled, backoff, wait, lastRun, runErr, boSeq, waitLog>>
    /\ UNCHANGED <<sessVars, pipeVars, discVars, hubSide>>

\* The cumulative counters of a telemetry, and their sum.
Counters(t) ==
    <<t.sessions, t.failures, t.bridges,
      t.dialSuccess["api"], t.dialSuccess["minecraft"],
      t.dialFailures["api"], t.dialFailures["minecraft"],
      t.discoverSuccess, t.discoverFailures,
      t.apiToMCTotal, t.mcToAPITotal>>

RECURSIVE SumSeq(_)
SumSeq(q) == IF q = <<>> THEN 0 ELSE Head(q) + SumSeq(Tail(q))

\* The telemetry after any one record call, whoever makes it.
RecordCalls(t) ==
    {recordSessionStart(t), recordBridgeEstablished(t),
     recordForwardAPIToMC(t), recordForwardMCToAPI(t),
     recordDiscover(t, TRUE, NoError)}
    \cup {recordSessionSuccess(t, d) : d \in Durations}
    \cup {recordSessionFailure(t, d, e) : d \in Durations, e \in {NoError, "dial"}}
    \cup {recordDialSuccess(t, g) : g \in Targets}
    \cup {recordDialFailure(t, g, e) : g \in Targets, e \in {NoError, "dial"}}
    \cup {recordDiscover(t, FALSE, e) : e \in {NoError, "other"}}

telemetry_Record ==
    /\ SumSeq(Counters(metrics)) < MaxOps
    /\ metrics' \in RecordCalls(metrics)
    /\ UNCHANGED <<cfg, sup, cancelled, backoff, wait, lastRun, runErr, boSeq, waitLog, telVars>>
    /\ UNCHANGED <<sessVars, pipeVars, discVars, hubSide>>

SupervisorStep ==
    \/ signal_Cancel
    \/ main_LoopTop
    \/ runOnce_DialAPI
    \/ runOnce_DialMC
    \/ main_Failed
    \/ main_FailedCancelled
    \/ main_WaitElapsed
    \/ main_WaitCancelled

RunStep ==
    \/ run_Start
    \/ run_CtxDone
    \/ run_ErrCh
    \/ close_Pending
    \/ close_API
    \/ close_MC

PipeStep ==
    \/ pipeAPIToMC_Read
    \/ pipeAPIToMC_ReadError
    \/ pipeAPIToMC_Write
    \/ pipeAPIToMC_WriteError
    \/ pipeMCToAPI_Read
    \/ pipeMCToAPI_ReadError
    \/ pipeMCToAPI_Write
    \/ pipeMCToAPI_WriteError

DiscoverStep ==
    \/ discoverLoop_CtxDone
    \/ discoverLoop_Call
    \/ callMinecraft_Write
    \/ callMinecraft_WriteError
    \/ callMinecraft_Timeout
    \/ callMinecraft_Receive
    \/ sendDiscover_Publish
    \/ sendDiscover_PublishError
    \/ discoverLoop_BackoffElapsed

\* ----------------------------------------------------------------------- Next
HandlerStep(c) ==
    \/ RegisterAgent_Lock(c)
    \/ RegisterAgent_Install(c)
    \/ RegisterAgent_Return(c)
    \/ handleAgentConnect_Closed(c)
    \/ handleAgentConnect_Cancelled(c)
    \/ Close_Begin_H(c)
    \/ Close_Chan_H(c)
    \/ Close_FailPending_H(c)

ReadLoopStep(c) ==
    \/ readLoop_ReadError(c)
    \/ Close_Begin_R(c)
    \/ Close_Chan_R(c)
    \/ Close_FailPending_R(c)
    \/ readLoop_AgentClosed(c)
    \/ readLoop_MarkDisconnected(c)
    \/ readLoop_Dropped(c)
    \/ readLoop_Control(c)
    \/ readLoop_Response(c)

BroadcastStep(c) ==
    \/ readLoop_Notification(c)
    \/ broadcast_RUnlock(c)
    \/ broadcast_Send(c)
    \/ broadcast_SendError(c)
    \/ broadcast_RemoveClient(c)

CallStep(k) ==
    \/ handleServerRPC_Lookup(k)
    \/ Call_Register(k)
    \/ Call_SendError(k)
    \/ Call_Write(k)
    \/ Call_Timeout(k)
    \/ Call_Closed(k)
    \/ Call_Receive(k)

ViewerStep(v) ==
    \/ handleServerEvents_Register(v)
    \/ handleServerEvents_Exit(v)

Next ==
    \/ \E c \in Conns : HandlerStep(c) \/ ReadLoopStep(c) \/ BroadcastStep(c)
    \/ \E k \in Calls : CallStep(k)
    \/ \E v \in Viewers : ViewerStep(v)
    \/ SupervisorStep \/ main_Succeeded
    \/ telemetry_Tick \/ telemetry_Stop
    \/ RunStep \/ PipeStep \/ DiscoverStep

Spec == Init /\ [][Next]_vars

\* The connection lifecycle without inbound frames: the handler and the
\* closing path of the read loop.
ConnStep(c) ==
    \/ HandlerStep(c)
    \/ readLoop_ReadError(c)
    \/ Close_Begin_R(c)
    \/ Close_Chan_R(c)
    \/ Close_FailPending_R(c)
    \/ readLoop_AgentClosed(c)
    \/ readLoop_MarkDisconnected(c)

\* The registry: every connection with its handler and its read loop.
NextHub == \E c \in Conns : ConnStep(c)

SpecHub == Init /\ [][NextHub]_vars

\* Calls.  a.pending, a.closed and a.conn are per connection and Call reads
\* nothing else, so calls are checked on one connection, which its read loop
\* and its handler may close concurrently and whose agent answers with
\* arbitrary ids.
CallConns == {1}

\* The steps of a connection that replaces no other.
SoleConnStep(c) ==
    \/ RegisterAgent_Lock(c)
    \/ RegisterAgent_Return(c)
    \/ handleAgentConnect_Closed(c)
    \/ handleAgentConnect_Cancelled(c)
    \/ Close_Begin_H(c)
    \/ Close_Chan_H(c)
    \/ Close_FailPending_H(c)
    \/ readLoop_ReadError(c)
    \/ Close_Begin_R(c)
    \/ Close_Chan_R(c)
    \/ Close_FailPending_R(c)
    \/ readLoop_AgentClosed(c)
    \/ readLoop_MarkDisconnected(c)

NextCalls ==
    \/ \E c \in CallConns : SoleConnStep(c) \/ readLoop_Response(c)
    \/ \E k \in Calls : CallStep(k)

SpecCalls == Init /\ [][NextCalls]_vars

\* The scheduler runs every goroutine that can take a step.
FairCalls ==
    /\ \A k \in Calls : WF_vars(CallStep(k))
    /\ \A c \in CallConns : WF_vars(SoleConnStep(c))

SpecCallsFair == SpecCalls /\ FairCalls

\* Viewers and fan-out: one connection whose agent sends notifications.
NextViewers ==
    \/ \E c \in CallConns : SoleConnStep(c) \/ BroadcastStep(c)
    \/ \E v \in Viewers : ViewerStep(v)

SpecViewers == Init /\ [][NextViewers]_vars

\* Classification of inbound frames: one connection that stays open, whose
\* agent sends frames of every shape, with calls outstanding and viewers
\* registered.
FrameStep(c) ==
    \/ RegisterAgent_Lock(c)
    \/ RegisterAgent_Return(c)
    \/ readLoop_Dropped(c)
    \/ readLoop_Control(c)
    \/ readLoop_Response(c)
    \/ readLoop_Notification(c)
    \/ broadcast_RUnlock(c)
    \/ broadcast_Send(c)

FrameCallStep(k) ==
    \/ handleServerRPC_Lookup(k)
    \/ Call_Register(k)
    \/ Call_Write(k)
    \/ Call_Receive(k)

NextFrames ==
    \/ \E c \in CallConns : FrameStep(c)
    \/ \E k \in Calls : FrameCallStep(k)
    \/ \E v \in Viewers : handleServerEvents_Register(v)

InitFrames == InitHub(Shapes) /\ InitAgent(DefaultCfg)

SpecFrames == InitFrames /\ [][NextFrames]_vars

\* The agent's supervisor: main's loop over sessions whose relay loops fail
\* on a read; the frames relayed and the discovery do not matter to it.
NextSupervisor ==
    \/ SupervisorStep
    \/ RunStep
    \/ pipeAPIToMC_ReadError
    \/ pipeMCToAPI_ReadError

SupCfgs == {loadConfig(e) : e \in [initial : {1}, max : {3}, multiplier : {20},
                                    jitter : {0, 2}, conv : {MinDuration}]}

InitSupervisor == InitHub(WellFormed) /\ \E c \in SupCfgs : InitAgent(c)

SpecSupervisor == InitSupervisor /\ [][NextSupervisor]_vars

\* One bridge session seen from the managed endpoint: the first attempt of
\* the supervisor, the B-to-A relay loop, the discovery loop and the A-to-B
\* loop failing on a read, until main has the session's error.
NextBridge ==
    \/ signal_Cancel
    \/ main_LoopTop
    \/ runOnce_DialAPI
    \/ runOnce_DialMC
    \/ RunStep
    \/ pipeAPIToMC_ReadError
    \/ pipeMCToAPI_Read
    \/ pipeMCToAPI_ReadError
    \/ pipeMCToAPI_Write
    \/ pipeMCToAPI_WriteError
    \/ DiscoverStep

SpecBridge == Init /\ [][NextBridge]_vars

\* One bridge session seen from the control plane: both relay loops, and
\* the discovery loop's first call, written to B and never answered.
NextRelay ==
    \/ signal_Cancel
    \/ main_LoopTop
    \/ runOnce_DialAPI
    \/ runOnce_DialMC
    \/ RunStep
    \/ PipeStep
    \/ discoverLoop_CtxDone
    \/ discoverLoop_Call
    \/ callMinecraft_Write
    \/ callMinecraft_Timeout

SpecRelay == Init /\ [][NextRelay]_vars

\* The backoff alone: every configuration loadConfig can produce, and the
\* backoff advanced MaxSteps times.
nextBackoff_Step ==
    /\ Len(boSeq) <= MaxSteps
    /\ backoff' = nextBackoff(backoff, cfg.multiplier, cfg.max, cfg.conv)
    /\ boSeq' = Append(boSeq, nextBackoff(backoff, cfg.multiplier, cfg.max, cfg.conv))
    /\ UNCHANGED <<cfg, sup, cancelled, wait, metrics, lastRun, runErr, waitLog, telVars>>
    /\ UNCHANGED <<sessVars, pipeVars, discVars, hubSide>>

NextBackoff == nextBackoff_Step

InitBackoff == InitHub(WellFormed) /\ \E c \in Cfgs : InitAgent(c)

SpecBackoff == InitBackoff /\ [][NextBackoff]_vars

\* The supervisor with sessions whose relay loops fail on a read and whose
\* first discovery call is written to B and never answered.
NextShutdown ==
    \/ NextSupervisor
    \/ discoverLoop_CtxDone
    \/ discoverLoop_Call
    \/ callMinecraft_Write
    \/ callMinecraft_Timeout

SpecShutdown == InitSupervisor /\ [][NextShutdown]_vars

\* The scheduler runs the goroutine of session.run and main whenever they
\* can take a step; the signal and the transports' errors are under no such
\* obligation.
FairShutdown ==
    /\ WF_vars(RunStep)
    /\ WF_vars(main_FailedCancelled)
    /\ WF_vars(main_LoopTop)
    /\ WF_vars(discoverLoop_CtxDone)

SpecShutdownFair == SpecShutdown /\ FairShutdown

\* The telemetry taken alone: record calls in any order, the periodic
\* snapshot, and the snapshot of stop when main returns on the signal.
NextTelemetry ==
    \/ telemetry_Record
    \/ telemetry_Tick
    \/ telemetry_Stop
    \/ signal_Cancel
    \/ main_LoopTop

SpecTelemetry == Init /\ [][NextTelemetry]_vars

\* ======================================================================
\* Properties
\* ======================================================================

Installed(c) == hpc[c] \in {"markConnected", "wait"}

\* Some goroutine has raised c's closed signal and is about to run failPending.
FailPendingDue(c) ==
    \/ rpc[c] = "failPending"
    \/ \E t \in Conns : hpc[t] = "failPending" /\ HTarget(t) = c

C2_NewerStaysRegistered ==
    \A c \in Conns :
        (/\ Installed(c)
         /\ rpc[c] \in {"off", "read"}
         /\ ~transportClosed[c] /\ ~closed[c]
         /\ c \notin superseded)
        => AgentFor(connSid[c]) = c

\* C8: over all invocations of Close on a connection, close(a.closed) is
\* executed at most once and failPending runs at most once.
C8_ClosedOnce ==
    \A c \in Conns : closeCount[c] <= 1 /\ failCount[c] <= 1

\* The channels currently stored in some pending table.
Slotted == {pending[c][i] : c \in Conns, i \in Ids} \ {NoCall}

\* The step read a response frame carrying id i from connection c.
ReadsResponse(c, i) ==
    frameLog' = Append(frameLog, [conn |-> c, kind |-> "response", id |-> i, ctl |-> NoControl])

\* C3: no response channel is ever sent more than one value; a response frame
\* whose id has a slot removes that slot and is the one value sent to it; a
\* response frame whose id has no slot (a late or duplicate response) sends
\* nothing and changes neither the pending tables, the channels nor any call.
C3_AtMostOneResolution ==
    [][/\ \A k \in Calls : Len(chSends'[k]) <= 1
       /\ \A c \in Conns, i \in Ids :
            ReadsResponse(c, i) =>
                IF pending[c][i] # NoCall
                THEN LET k == pending[c][i] IN
                     /\ pending' = [pending EXCEPT ![c][i] = NoCall]
                     /\ chSends'[k] = <<Frame(i, frameSeq')>>
                     /\ \A j \in Calls \ {k} : chSends'[j] = chSends[j]
                ELSE UNCHANGED <<chanVars, callVars, hubVars>>]_vars

\* C3 witness: a frame resolved a call and a later frame with the same id,
\* from the same connection, was read after it.
C3_Witness ==
    \E k \in Calls, n \in 1..frameSeq :
        /\ chSends[k] = <<Frame(frameLog[n].id, n)>>
        /\ \E m \in (n + 1)..frameSeq :
            frameLog[m].id = frameLog[n].id /\ frameLog[m].conn = frameLog[n].conn

\* C4: a payload returned by Call is, byte for byte, an inbound frame read
\* from the call's connection whose id is the id the call was sent with, and
\* nothing but such a frame (or failPending's nil) is ever sent to its channel.
C4_ResolvedByOwnId ==
    \A k \in Calls :
        /\ outcome[k] = "ok" =>
            /\ result[k].id = cid[k]
            /\ result[k].seq \in 1..frameSeq
            /\ frameLog[result[k].seq] =
                    [conn |-> cconn[k], kind |-> "response", id |-> cid[k],
                     ctl |-> NoControl]
        /\ result[k] # Nil => outcome[k] = "ok"
        /\ \A n \in 1..Len(chSends[k]) :
            chSends[k][n] = Nil \/ chSends[k][n].id = cid[k]

\* C4 witness: two calls with distinct ids were both answered, the call
\* issued first by the later frame.
C4_Witness ==
    \E j, k \in Calls :
        /\ j < k
        /\ outcome[j] = "ok" /\ outcome[k] = "ok"
        /\ cid[j] # cid[k]
        /\ result[j].seq > result[k].seq

\* C5: the step in which a Call times out leaves no entry under its id, and
\* from then on its channel is in no pending table and is never sent to or
\* closed again, whatever Close and failPending do later.
C5_TimeoutRemovesEntry ==
    [][\A k \in Calls :
        /\ (outcome[k] = "none" /\ outcome'[k] = "timeout") =>
                pending'[cconn[k]][cid[k]] = NoCall
        /\ outcome[k] = "timeout" =>
            /\ k \notin Slotted'
            /\ chBuf'[k] = chBuf[k]
            /\ chClosed'[k] = chClosed[k]
            /\ chSends'[k] = chSends[k]
            /\ ~chanPanic']_vars

\* C5 witness: a call with a generated id timed out before anything was sent
\* to its channel, and failPending ran on its connection.
C5_Witness ==
    \E k \in Calls :
        /\ outcome[k] = "timeout"
        /\ cid[k] = k
        /\ chSends[k] = <<>>
        /\ failCount[cconn[k]] = 1

\* A call between the registration of its slot and its return.
Outstanding(k) == cpc[k] \in {"write", "wait"}

\* C6: the step in which a Call times out neither removes the slot nor closes
\* the channel of any other outstanding call.
C6_TimeoutLeavesOthers ==
    [][\A k, j \in Calls :
        (/\ k # j
         /\ outcome[k] = "none" /\ outcome'[k] = "timeout"
         /\ Outstanding(j))
        => /\ chClosed'[j] = chClosed[j]
           /\ (j \in Slotted => j \in Slotted')]_vars

\* C7: an outstanding call whose connection is closed is never blocked: it
\* always has a step to take (its send fails, or its select fires on
\* a.closed, on respCh or on its deadline), so that it returns.
C7_ClosedCallCanReturn ==
    \A k \in Calls :
        (Outstanding(k) /\ closed[cconn[k]]) => ENABLED CallStep(k)

\* The broadcast of frame n has returned.
BroadcastDone(n) ==
    /\ blog[n].server # NoServer
    /\ \A c \in Conns : bFrame[c] = n => rpc[c] \notin {"RUnlock", "broadcast", "removeClient"}

\* C9: a broadcast removes from the registry only viewers whose send failed;
\* every viewer of the snapshot is either sent the payload or failed, never
\* both; and once the broadcast has returned every viewer of the snapshot
\* was attempted, every failed viewer is closed and every other one has
\* received the payload.
C9_OnlyFailedViewerRemoved ==
    \A n \in 1..frameSeq :
        /\ blog[n].removed \subseteq blog[n].failed
        /\ blog[n].sent \cap blog[n].failed = {}
        /\ blog[n].sent \cup blog[n].failed \subseteq blog[n].snap
        /\ \A v \in blog[n].snap : vSid[v] = blog[n].server
        /\ \A v \in blog[n].sent : n \in vRecv[v]
        /\ \A v \in blog[n].failed : vClosed[v] /\ n \notin vRecv[v]
        /\ BroadcastDone(n) =>
            /\ blog[n].sent \cup blog[n].failed = blog[n].snap
            /\ \A v \in blog[n].failed : v \notin ViewersOf(clients, blog[n].server)

\* C9 witness: a broadcast to all MaxViewers viewers of one server id has
\* returned; exactly one send failed and that viewer is gone; the others got
\* the payload and are still registered.
C9_Witness ==
    \E n \in 1..frameSeq :
        /\ BroadcastDone(n)
        /\ blog[n].snap = Viewers
        /\ Cardinality(blog[n].failed) = 1
        /\ blog[n].removed = blog[n].failed
        /\ ViewersOf(clients, blog[n].server) = Viewers \ blog[n].failed
        /\ \A v \in Viewers \ blog[n].failed : n \in vRecv[v]

\* The server ids under which viewer v is registered.
RegisteredUnder(cl, v) == {s \in DOMAIN cl : v \in cl[s]}

C11_ClassifiedInOrder ==
    [][(frameLog' # frameLog) =>
        LET f == lastShape'
            n == frameSeq'
            e == frameLog'[n]
            c == e.conn
        IN  /\ (f.decodable /\ f.control) =>
                /\ e.kind = "control"
                /\ UNCHANGED <<callVars, chanVars, viewVars, bcVars, rpc>>
            /\ (f.decodable /\ ~f.control /\ f.id /\ ~f.method) =>
                /\ e.kind = "response"
                /\ UNCHANGED <<callVars, viewVars, bcVars, schemaJson, rpc>>
                /\ pending' = [pending EXCEPT ![c][e.id] = NoCall]
                /\ pending[c][e.id] = NoCall => UNCHANGED chanVars
            /\ (f.decodable /\ ~f.control /\ ~f.id /\ f.method) =>
                /\ e.kind = "notification"
                /\ UNCHANGED <<callVars, chanVars, schemaJson, clients>>
                /\ bFrame'[c] = n
                /\ blog'[n].server = connSid[c]
                /\ blog'[n].snap = ViewersOf(clients, connSid[c])
            /\ \A v \in Viewers : \A m \in vRecv'[v] :
                    frameLog'[m].kind = "notification"]_vars

\* C11 witness: a notification was written to a viewer; then a frame with
\* "_control", "id" and "method" was read while a call had a slot, and the
\* slot is still there.
C11_Witness ==
    /\ frameSeq = 2
    /\ frameLog[1].kind = "notification"
    /\ \E v \in Viewers : 1 \in vRecv[v]
    /\ lastShape.control /\ lastShape.id /\ lastShape.method
    /\ Slotted # {}


\* The frames of A among those written to B, in the order written.
FromA(e) == e.src = "A"
ForwardedToB == SelectSeq(toB, FromA)

\* C12: in a bridge session the frames written to B on behalf of A are
\* exactly the frames read from A, each once, unchanged and in the order
\* read: the i-th frame forwarded is the i-th frame read; when the loop is
\* about to read, every frame read so far has been forwarded, and otherwise
\* only the frame last read is outstanding (it is lost only to the write
\* error that ends the session).  The forward counter counts them.
C12_AToBInOrder ==
    /\ \A i \in 1..Len(ForwardedToB) : ForwardedToB[i].n = i
    /\ Len(ForwardedToB) <= aRead
    /\ Len(ForwardedToB) >= aRead - 1
    /\ pa = "read" => Len(ForwardedToB) = aRead
    /\ pa = "write" => (paData = aRead /\ Len(ForwardedToB) = aRead - 1)
    /\ metrics.apiToMCTotal = Len(ForwardedToB)

\* C12 witness: two frames of A were forwarded with the bridge's own
\* discovery request written to B between them.
C12_Witness ==
    /\ Len(toB) = 3
    /\ toB[1].src = "A" /\ toB[2].src = "call" /\ toB[3].src = "A"
    /\ aRead = 2 /\ pa = "read"


\* The positions in toA at which frame n of B was written.
ForwardsToA(n) == {i \in 1..Len(toA) : toA[i] = [src |-> "B", n |-> n]}

\* C13: when a frame is read from B, it resolves a self-issued call exactly
\* when it is a JSON object whose id is that of a call outstanding at that
\* moment: the frame is then handed to the call's waiter, the call is no
\* longer outstanding and the frame is not written to A; any other frame
\* (another id, none, undecodable) is the next thing the loop writes to A.
\* At all times no intercepted frame is in what was written to A, no frame
\* is written to A twice, and every frame not intercepted has been written
\* to A except the one in hand (lost only to the write error that ends the
\* session).
C13_InterceptOrForward ==
    [][/\ (bLog' # bLog) =>
            LET n  == Len(bLog')
                fr == bLog'[n]
            IN  IF fr.decodable /\ fr.id \in sPending
                THEN /\ handledLog'[n]
                     /\ dch'[fr.id] = [buf |-> n, closed |-> TRUE]
                     /\ sPending' = sPending \ {fr.id}
                     /\ pb' = "read"
                     /\ UNCHANGED <<toA, pbData>>
                ELSE /\ ~handledLog'[n]
                     /\ pb' = "write" /\ pbData' = n
                     /\ UNCHANGED <<toA, dch, sPending>>
       /\ \A n \in 1..Len(bLog') :
            /\ Cardinality(ForwardsToA(n))' <= 1
            /\ handledLog'[n] => ForwardsToA(n)' = {}
            /\ ~handledLog'[n] =>
                    \/ ForwardsToA(n)' # {}
                    \/ n = Len(bLog') /\ pbData' = n /\ pb' \in {"write", "done"}
       /\ metrics'.mcToAPITotal = Cardinality({i \in 1..Len(toA') : toA'[i].src = "B"})
      ]_vars

\* C13 witness: the response to a self-issued call was intercepted and a
\* second frame carrying the same id, read when the call was no longer
\* outstanding, was written to A.
C13_Witness ==
    /\ Len(bLog) = 2
    /\ handledLog = <<TRUE, FALSE>>
    /\ bLog[1].id = bLog[2].id
    /\ ForwardsToA(2) # {}
    /\ ForwardsToA(1) = {}


\* The relay loop that returns a given transport error.
LoopOf(e) == IF e \in {"A read", "B write"} THEN pa ELSE pb

\* C14: a transport error of either relay loop ends the session.  The error
\* run returns is the first one a relay loop reported, and that loop has
\* stopped.  When close runs, the channel of every call then outstanding is
\* closed with nothing in it and the table is emptied, and a waiter that
\* finds its channel closed and empty leaves with an error.  When run has
\* returned both transports are closed, a call registered since can only be
\* left with an error (the session's context is done), and from then on
\* nothing more is written to either transport.  No goroutine panics.
C14_ErrorEndsSession ==
    [][/\ (runPc = "select" /\ runPc' = "close_pending" /\ ~cancelled) =>
            /\ errCh # <<>>
            /\ runErr' = Head(errCh)
            /\ LoopOf(Head(errCh)) = "done"
       /\ (runPc = "close_pending" /\ runPc' # runPc) =>
            /\ \A d \in sPending : dch'[d] = [buf |-> NoFrame, closed |-> TRUE]
            /\ sPending' = {}
       /\ (dpc = "call_wait" /\ dpc' # dpc /\ dch[dAttempt] = [buf |-> NoFrame, closed |-> TRUE]) =>
            /\ dpc' \in {"backoff", "done"}
            /\ dResult' \in ErrKinds
            /\ toA' = toA
       /\ runPc' = "returned" =>
            /\ apiConn' = "closed" /\ mcConn' = "closed"
            /\ runErr' # "none"
            /\ SessDone'
            /\ \A d \in sPending' :
                    d = dAttempt' /\ dpc' \in {"call_write", "call_wait"} /\ dch'[d] = NoChan
       /\ runPc = "returned" => (toA' = toA /\ toB' = toB)
       /\ ~agentPanic'
      ]_vars

\* C14 witness: run returned the read error of B while a discovery call was
\* outstanding; close closed the call's channel and its waiter left with an
\* error; both transports are closed and the A-to-B loop has not stopped yet.
C14_Witness ==
    /\ runPc = "returned"
    /\ runErr = "B read"
    /\ ~cancelled
    /\ bLog = <<>>
    /\ dAttempt = 1 /\ dch[1] = [buf |-> NoFrame, closed |-> TRUE]
    /\ dLog = <<"other">>
    /\ apiConn = "closed" /\ mcConn = "closed"
    /\ pa = "read" /\ pb = "done"


C16_ResetAfterBridgedRun ==
    [][(/\ sup = "waiting" /\ sup' = "top"
        /\ lastRun = "bridged"
        /\ metrics.lastSessionDuration = "long")
            => backoff' = initialBackoff(cfg)]_vars

\* C17: once the shutdown signal has arrived no session is started and no
\* session failure is recorded.
C17_CancelRecordsNothing ==
    [][cancelled =>
        /\ metrics'.sessions = metrics.sessions
        /\ metrics'.failures = metrics.failures]_vars

\* The steps main's loop can take from one position to the next.
SupFlow ==
    {<<"top", "dialAPI">>, <<"top", "stopped">>,
     <<"dialAPI", "dialMC">>, <<"dialAPI", "returned">>,
     <<"dialMC", "bridging">>, <<"dialMC", "returned">>,
     <<"bridging", "returned">>,
     <<"returned", "waiting">>, <<"returned", "stopped">>,
     <<"waiting", "top">>, <<"waiting", "stopped">>}

\* C18: main's loop moves top -> dialling A -> dialling B -> bridging ->
\* returned -> waiting -> top, a failed dial going straight to returned, and
\* stops only when the shutdown signal has arrived.  When runOnce has failed
\* and there was no shutdown signal, one session failure is recorded, and
\* the wait w chosen has backoff <= w < backoff + jitter, w = backoff when
\* the jitter is 0; the backoff itself is not changed until the wait is
\* over, when it becomes min(backoff x multiplier, cap) and a new attempt
\* starts from the top.  Failures are recorded nowhere else, one per
\* finished attempt.
C18_FailureThenBackoff ==
    [][/\ sup' # sup => <<sup, sup'>> \in SupFlow
       /\ sup' = "stopped" => cancelled'
       /\ (sup = "returned" /\ ~cancelled) =>
            /\ sup' \in {"returned", "waiting"}
            /\ sup' = "waiting" =>
                /\ metrics'.failures = metrics.failures + 1
                /\ backoff <= wait'
                /\ IF cfg.jitter = 0 THEN wait' = backoff
                                     ELSE wait' < backoff + cfg.jitter
                /\ backoff' = backoff
       /\ (sup = "waiting" /\ sup' = "top") =>
            /\ backoff' = IF backoff * 2 > cfg.max THEN cfg.max ELSE backoff * 2
            /\ metrics' = metrics
       /\ (sup = "top" /\ sup' = "dialAPI") =>
            /\ metrics'.sessions = metrics.sessions + 1
            /\ backoff' = backoff
       /\ metrics'.failures # metrics.failures =>
            /\ sup = "returned"
            /\ metrics'.failures = metrics.failures + 1
       /\ sup' \in {"top", "waiting", "stopped"} =>
            metrics'.failures \in {metrics'.sessions, metrics'.sessions - 1}
       /\ sup' = "waiting" => metrics'.failures = metrics'.sessions
      ]_vars

\* C18 witness: with a jitter ceiling of 2 a dial failure and a bridging
\* failure were each recorded and waited for, the second wait longer than
\* the backoff; the backoff went 1, 2, 3 (the cap) and the third attempt is
\* dialling.
C18_Witness ==
    /\ cfg.jitter = 2
    /\ sup = "dialAPI"
    /\ ~cancelled
    /\ metrics.sessions = 3 /\ metrics.failures = 2
    /\ Len(waitLog) = 2
    /\ waitLog[1] = [backoff |-> 1, wait |-> 1, failures |-> 1]
    /\ waitLog[2] = [backoff |-> 2, wait |-> 3, failures |-> 2]
    /\ boSeq = <<1, 2, 3>>
    /\ lastRun = "bridged"
    /\ metrics.dialFailures["api"] = 1


\* How many attempts of the discovery loop ended in a given way, and the
\* control frames written to A.
Ended(how) == Cardinality({i \in 1..Len(dLog) : dLog[i] = how})
ControlFrames == {i \in 1..Len(toA) : toA[i].src = "control"}

\* C19: in a session, the discovery failures recorded are the attempts that
\* ended in an error other than a cancellation or a closed transport, the
\* successes recorded are the schemas published, and a control frame is
\* written to A only by a success, at most once.  When the k-th + 1 attempt
\* succeeds, the k attempts before it all failed and were recorded: k
\* failures, one success, one control frame carrying the result of that
\* attempt, and the loop has ended.
C19_DiscoveryCounts ==
    /\ metrics.discoverFailures = Ended("other")
    /\ metrics.discoverSuccess = Ended("ok")
    /\ Cardinality(ControlFrames) = Ended("ok")
    /\ Ended("ok") <= 1
    /\ Len(dLog) <= dAttempt
    /\ Ended("ok") = 1 =>
            /\ dpc = "done"
            /\ Len(dLog) = dAttempt
            /\ dLog[dAttempt] = "ok"
            /\ \A i \in 1..(dAttempt - 1) : dLog[i] = "other"
            /\ metrics.discoverFailures = dAttempt - 1
            /\ \A i \in ControlFrames : toA[i].n = dAttempt

\* C19 witness: in a session still bridging the endpoint answered the first
\* call with an error, left the second unanswered, and answered the third
\* with a result: two failures, one success, one control frame.
C19_Witness ==
    /\ runPc = "select" /\ ~SessDone
    /\ dLog = <<"other", "other", "ok">>
    /\ metrics.discoverFailures = 2 /\ metrics.discoverSuccess = 1
    /\ Cardinality(ControlFrames) = 1
    /\ Len(bLog) = 2
    /\ bLog[1].id = 1 /\ bLog[1].error
    /\ bLog[2].id = 3 /\ ~bLog[2].error
    /\ handledLog = <<TRUE, TRUE>>


\* The ways a Call ends: the matching response, its deadline, the closure
\* of the connection, or a failure to encode or send the request.
CallOutcomes == {"ok", "timeout", "agent disconnected", "send error"}

\* C20: every Call that was entered returns, with one of its four outcomes.
C20_EveryCallReturns ==
    \A k \in Calls :
        (cpc[k] = "Call") ~> (cpc[k] = "done" /\ outcome[k] \in CallOutcomes)


\* C21: no step lowers a cumulative counter of the telemetry, and a snapshot
\* (of the ticker or of stop) logs the values as they are and changes no
\* counter and no field.
C21_CountersMonotone ==
    [][/\ \A i \in 1..Len(Counters(metrics)) : Counters(metrics')[i] >= Counters(metrics)[i]
       /\ snaps' # snaps =>
            /\ metrics' = metrics
            /\ lastSnap' = Emitted(metrics)
            /\ snaps' = snaps + 1
      ]_vars

\* C21 witness: a failed dial and a failed session were recorded, the ticker
\* logged a snapshot, and stop logged the last one with the same counts.
C21_Witness ==
    /\ snaps = 2
    /\ telPc = "done"
    /\ metrics.failures = 1
    /\ metrics.dialFailures["api"] = 1
    /\ metrics.lastError = "dial"
    /\ lastSnap = Emitted(metrics)


\* C22: a request whose lookup finds no connection is answered 503 "agent
\* not connected" in that very step, with no slot registered and nothing
\* sent; a request whose Call returned an error (timeout, disconnected,
\* send error) is answered 502 with that error; only a request whose Call
\* returned a response is answered 200, with that response as the body.
C22_ProxyMapsOutcomes ==
    [][\A k \in Calls :
        (cpc[k] # "done" /\ cpc'[k] = "done") =>
            LET r == handleServerRPC_Respond(outcome'[k], result'[k]) IN
            /\ outcome'[k] # "none"
            /\ cconn'[k] = NoConn <=> outcome'[k] = "agent not connected"
            /\ outcome'[k] = "agent not connected" =>
                /\ cpc[k] = "idle"
                /\ r = [status |-> StatusServiceUnavailable, body |-> "agent not connected"]
                /\ UNCHANGED <<hubVars, chanVars, cid, result>>
            /\ outcome'[k] \in {"timeout", "agent disconnected", "send error"} =>
                /\ r = [status |-> StatusBadGateway, body |-> outcome'[k]]
                /\ result'[k] = result[k]
            /\ r.status = StatusOK <=> outcome'[k] = "ok"
            /\ r.status = StatusOK => (r.body = result'[k] /\ result'[k] # Nil)
      ]_vars

\* C22 witness: one request found no connection, the other one's Call
\* returned the agent's response.
C22_Witness ==
    /\ \E k \in Calls : cpc[k] = "done" /\ outcome[k] = "agent not connected"
    /\ \E k \in Calls :
        /\ cpc[k] = "done" /\ outcome[k] = "ok"
        /\ handleServerRPC_Respond(outcome[k], result[k]).body = result[k]


\* C23: when the shutdown signal has arrived and a session is bridging,
\* eventually both transports of the session are closed, main has returned,
\* and the discovery task has returned or is ended with the process.
C23_ShutdownCloses ==
    (cancelled /\ sup = "bridging")
        ~> (/\ apiConn = "closed" /\ mcConn = "closed"
            /\ sup = "stopped"
            /\ runPc = "returned"
            /\ dpc = "done" \/ ~AgentRunning)

\* C23 witness: the signal arrived while the session was bridging with a
\* discovery call outstanding; both transports are closed, the discovery
\* task has returned and main has returned.
C23_Witness ==
    /\ cancelled
    /\ sup = "stopped"
    /\ metrics.bridges = 1 /\ metrics.sessions = 1
    /\ runErr = "cancelled"
    /\ errCh = <<>> /\ pa = "read" /\ pb = "read"
    /\ apiConn = "closed" /\ mcConn = "closed"
    /\ dAttempt = 1 /\ dpc = "done"


\* C24: broadcast copies the viewer set of the server id while it holds the
\* hub's lock for reading (no writer holds it, and nothing is sent or
\* changed in the registry meanwhile) and has released the lock before the
\* first send: no read loop that is sending, or removing a failed viewer,
\* holds the lock.  Each send attempt is to a viewer of the copy that this
\* broadcast has not attempted before.
C24_SnapshotThenSend ==
    [][\A c \in Conns :
        /\ (c \in hubRd' /\ c \notin hubRd) =>
            /\ hubMu = 0
            /\ bSnap'[c] = ViewersOf(clients, connSid[c])
            /\ UNCHANGED <<clients, vRecv, vClosed>>
        /\ c \in hubRd => UNCHANGED <<clients, agents, vRecv, vClosed>>
        /\ rpc'[c] \in {"broadcast", "removeClient"} => c \notin hubRd'
        /\ (rpc[c] = "broadcast" /\ bSnap'[c] # bSnap[c]) =>
            LET n == bFrame[c]
                attempted == bSnap[c] \ bSnap'[c]
            IN  /\ c \notin hubRd
                /\ Cardinality(attempted) = 1
                /\ attempted \subseteq blog[n].snap
                /\ attempted \cap (blog[n].sent \cup blog[n].failed) = {}
                /\ attempted \subseteq (blog'[n].sent \cup blog'[n].failed)
      ]_vars

\* C24 witness: a broadcast has sent to one viewer of its copy and has the
\* other still to do, and that other viewer has meanwhile left the registry
\* (its handler took the hub lock for writing).
C24_Witness ==
    \E c \in Conns :
        /\ rpc[c] = "broadcast"
        /\ Cardinality(blog[bFrame[c]].sent) = 1
        /\ \E v \in bSnap[c] : vpc[v] = "done" /\ v \notin ViewersOf(clients, vSid[v])
        /\ hubRd = {}


\* ---- Writing to a transport, one lock operation or library call at a time.
restOfWr == <<hubVars, callVars, chanVars, viewVars, bcVars, frameLog, lastShape,
              peerFrames, agentVars>>

\* sync.Mutex: Lock waits while another goroutine holds the mutex.
Mutex_Lock(w, t, from, to) ==
    /\ wpc[w] = from
    /\ writeMu[t] = NoWriter
    /\ writeMu' = [writeMu EXCEPT ![t] = w]
    /\ wpc' = [wpc EXCEPT ![w] = to]
    /\ UNCHANGED <<connWriting, restOfWr>>

\* conn.Write / conn.Close of nhooyr.io/websocket (go.mod: v1.8.10): the
\* library writes a frame under the connection's own write lock, so the call
\* waits while another goroutine is writing one.
Conn_Enter(w, t, from, to) ==
    /\ wpc[w] = from
    /\ connWriting[t] = {}
    /\ connWriting' = [connWriting EXCEPT ![t] = @ \cup {w}]
    /\ wpc' = [wpc EXCEPT ![w] = to]
    /\ UNCHANGED <<writeMu, restOfWr>>

\* The library call returns (with or without an error).
Conn_Return(w, t, from, to) ==
    /\ wpc[w] = from
    /\ connWriting' = [connWriting EXCEPT ![t] = @ \ {w}]
    /\ wpc' = [wpc EXCEPT ![w] = to]
    /\ UNCHANGED <<writeMu, restOfWr>>

\* The library call returns and the mutex is unlocked.
Mutex_Unlock(w, t, from, to) ==
    /\ wpc[w] = from
    /\ connWriting' = [connWriting EXCEPT ![t] = @ \ {w}]
    /\ writeMu' = [writeMu EXCEPT ![t] = NoWriter]
    /\ wpc' = [wpc EXCEPT ![w] = to]
    /\ UNCHANGED restOfWr

\* AgentConn.write, called by Call.
write_LockUnguarded(k) ==
    /\ wpc[<<"Call", k>>] = "write"
    /\ writeMu' = [writeMu EXCEPT !["agent"] = <<"Call", k>>]
    /\ wpc' = [wpc EXCEPT ![<<"Call", k>>] = "write:locked"]
    /\ UNCHANGED <<connWriting, restOfWr>>

write_Lock(k) == Mutex_Lock(<<"Call", k>>, "agent", "write", "write:locked")
write_Conn(k) == Conn_Enter(<<"Call", k>>, "agent", "write:locked", "write:conn")
write_Unlock(k) == Mutex_Unlock(<<"Call", k>>, "agent", "write:conn", "done")

\* AgentConn.Close: a.conn.Close under writeMu.
AgentConn_Close_Lock(w) == Mutex_Lock(w, "agent", "Close", "Close:locked")
AgentConn_Close_Conn(w) == Conn_Enter(w, "agent", "Close:locked", "Close:conn")
AgentConn_Close_Unlock(w) == Mutex_Unlock(w, "agent", "Close:conn", "done")

\* ClientConn.Send, called by broadcast; after an error broadcast calls
\* client.Close.
Send_Lock(c) == Mutex_Lock(<<"broadcast", c>>, "client", "Send", "Send:locked")
Send_Conn(c) == Conn_Enter(<<"broadcast", c>>, "client", "Send:locked", "Send:conn")
Send_Unlock(c) ==
    \E to \in {"done", "Close"} :
        Mutex_Unlock(<<"broadcast", c>>, "client", "Send:conn", to)

\* ClientConn.Close.
ClientConn_Close_Lock(c) == Mutex_Lock(<<"broadcast", c>>, "client", "Close", "Close:locked")
ClientConn_Close_Conn(c) == Conn_Enter(<<"broadcast", c>>, "client", "Close:locked", "Close:conn")
ClientConn_Close_Unlock(c) == Mutex_Unlock(<<"broadcast", c>>, "client", "Close:conn", "done")

\* handleServerEvents: the deferred conn.Close on the viewer's websocket
\* itself, not through the ClientConn and its writeMu.
handleServerEvents_ConnClose ==
    Conn_Enter(<<"handleServerEvents", 0>>, "client", "conn.Close", "conn.Close:conn")
handleServerEvents_ConnClosed ==
    Conn_Return(<<"handleServerEvents", 0>>, "client", "conn.Close:conn", "done")

\* The session's writers: s.mcConn.Write in pipeAPIToMC and callMinecraft,
\* s.apiConn.Write in pipeMCToAPI and sendDiscover.  The session has no
\* mutex of its own around them.  A relay loop that wrote a frame goes on to
\* the next one.
pipeAPIToMC_WriteBegin == Conn_Enter(<<"pipeAPIToMC", 0>>, "B", "Write", "Write:conn")
pipeAPIToMC_WriteEnd ==
    \E to \in {"Write", "done"} : Conn_Return(<<"pipeAPIToMC", 0>>, "B", "Write:conn", to)
pipeMCToAPI_WriteBegin == Conn_Enter(<<"pipeMCToAPI", 0>>, "A", "Write", "Write:conn")
pipeMCToAPI_WriteEnd ==
    \E to \in {"Write", "done"} : Conn_Return(<<"pipeMCToAPI", 0>>, "A", "Write:conn", to)

\* The discovery task: callMinecraft writes the request to B; with its
\* result sendDiscover writes the control frame to A, without it
\* discoverLoop calls sendDiscover again.
callMinecraft_WriteBegin ==
    Conn_Enter(<<"discoverLoop", 0>>, "B", "callMinecraft", "callMinecraft:conn")
callMinecraft_WriteEnd ==
    \E to \in {"sendDiscover", "callMinecraft", "done"} :
        Conn_Return(<<"discoverLoop", 0>>, "B", "callMinecraft:conn", to)
sendDiscover_WriteBegin ==
    Conn_Enter(<<"discoverLoop", 0>>, "A", "sendDiscover", "sendDiscover:conn")
sendDiscover_WriteEnd ==
    \E to \in {"callMinecraft", "done"} :
        Conn_Return(<<"discoverLoop", 0>>, "A", "sendDiscover:conn", to)

\* Every writer of one management connection, one viewer connection and one
\* bridge session.
NextWriters ==
    \/ \E k \in Calls : write_Lock(k) \/ write_Conn(k) \/ write_Unlock(k)
    \/ \E w \in CloseWriters :
        AgentConn_Close_Lock(w) \/ AgentConn_Close_Conn(w) \/ AgentConn_Close_Unlock(w)
    \/ \E c \in Conns : Send_Lock(c) \/ Send_Conn(c) \/ Send_Unlock(c)
    \/ \E c \in Conns :
        ClientConn_Close_Lock(c) \/ ClientConn_Close_Conn(c) \/ ClientConn_Close_Unlock(c)
    \/ handleServerEvents_ConnClose
    \/ handleServerEvents_ConnClosed
    \/ pipeAPIToMC_WriteBegin
    \/ pipeAPIToMC_WriteEnd
    \/ pipeMCToAPI_WriteBegin
    \/ pipeMCToAPI_WriteEnd
    \/ callMinecraft_WriteBegin
    \/ callMinecraft_WriteEnd
    \/ sendDiscover_WriteBegin
    \/ sendDiscover_WriteEnd

SpecWriters == Init /\ [][NextWriters]_vars

\* C25: writes to one transport are serialized: at most one goroutine at a
\* time is writing a frame on a management connection, a viewer connection,
\* transport A or transport B, and on the hub at most one goroutine at a time
\* is inside write / Send / Close of one connection (between writeMu.Lock
\* and Unlock).
InSection(t) ==
    {w \in Writers : wpc[w] \in {"write:locked", "write:conn", "Send:locked", "Send:conn",
                                 "Close:locked", "Close:conn"}
                     /\ (t = "agent") = (w \in CallWriters \cup CloseWriters)}
C26_DroppedChangesNothing ==
    [][(frameLog' # frameLog) =>
        LET n == frameSeq'
            e == frameLog'[n]
            c == e.conn
        IN  /\ ~lastShape'.decodable => e.kind = "dropped"
            /\ e.kind = "dropped" =>
                /\ UNCHANGED <<hubVars, callVars, chanVars, viewVars, bcVars>>
                /\ rpc'[c] = "read"
                /\ ~transportClosed'[c] /\ ~closed'[c]
                /\ agents'[connSid[c]] = c
            /\ (e.kind = "control" /\ e.ctl # "discover") =>
                /\ UNCHANGED <<hubVars, callVars, chanVars, viewVars, bcVars>>
                /\ rpc'[c] = "read"]_vars

\* C26 witness: a control frame of an unknown type, then an undecodable
\* frame, were read while a call had a slot and a viewer was registered; the
\* slot and the viewer are still there and nothing was persisted.
C26_Witness ==
    /\ frameSeq = 2
    /\ frameLog[1].kind = "control" /\ frameLog[1].ctl = "other"
    /\ frameLog[2].kind = "dropped" /\ ~lastShape.decodable
    /\ Slotted # {}
    /\ \E s \in DOMAIN clients : clients[s] # {}
    /\ \A s \in ServerIds : schemaJson[s] = 0
    /\ \E c \in Conns : rpc[c] = "read" /\ agents[connSid[c]] = c


\* The discovery task in one bridge session: the first attempt of the
\* supervisor, the B-to-A relay loop that hands the task its answers, and
\* the session ending on a read error of B or on the shutdown signal; the
\* scheduler runs the discovery task whenever it can take a step.
NextDiscover ==
    \/ signal_Cancel
    \/ main_LoopTop
    \/ runOnce_DialAPI
    \/ runOnce_DialMC
    \/ RunStep
    \/ pipeMCToAPI_Read
    \/ pipeMCToAPI_ReadError
    \/ pipeMCToAPI_Write
    \/ DiscoverStep

FairDiscover == WF_vars(DiscoverStep)

SpecDiscover == Init /\ [][NextDiscover]_vars

SpecDiscoverFair == SpecDiscover /\ FairDiscover

\* The session is over: run closed both transports and returned.
SessionEnded == runPc = "returned"
DiscoverRequests == {i \in 1..Len(toB) : toB[i].src = "call"}

\* C27: the discovery task publishes at most one control frame in a session
\* and stops for good after its first success: once the control frame is
\* written the task is done, and stays done, and no further discover request
\* goes to B.  Once the session has ended the task sends no request to B,
\* publishes nothing to A, and eventually terminates.
C27_DiscoverStops ==
    /\ [][/\ Cardinality(ControlFrames') <= 1
          /\ ControlFrames # {} =>
                /\ dpc = "done" /\ dpc' = "done"
                /\ dAttempt' = dAttempt
                /\ DiscoverRequests' = DiscoverRequests
                /\ ControlFrames' = ControlFrames
          /\ SessionEnded =>
                /\ DiscoverRequests' = DiscoverRequests
                /\ ControlFrames' = ControlFrames
                /\ toA' = toA /\ toB' = toB]_vars
    /\ (SessionEnded ~> dpc = "done")

\* C27 witness: the session ended while the task was waiting for the answer
\* to its second request, after a first attempt that failed; the task has
\* now returned, with two requests sent and nothing published.
C27_Witness ==
    /\ SessionEnded
    /\ dpc = "done"
    /\ dAttempt = 2
    /\ Cardinality(DiscoverRequests) = 2
    /\ ControlFrames = {}
    /\ Len(dLog) = 2 /\ dLog[1] = "other"


\* C28: a session is created, and the bridge counted, only after both dials
\* of the same attempt succeeded: the session is created by the step in
\* which the managed endpoint's dial succeeds, with the control plane's
\* transport of this attempt open, and the bridges counter moves only in a
\* session with both transports open.  The managed endpoint is dialled once
\* per successful control-plane dial, never after a failed one, and when its
\* dial fails the attempt returns with the control-plane transport closed.
C28_SessionAfterBothDials ==
    [][LET m == metrics'
       IN  /\ m.bridges <= m.dialSuccess["minecraft"]
           /\ m.dialSuccess["minecraft"] + m.dialFailures["minecraft"]
                = m.dialSuccess["api"] - (IF sup' = "dialMC" THEN 1 ELSE 0)
           /\ m.dialSuccess["api"] + m.dialFailures["api"]
                = m.sessions - (IF sup' = "dialAPI" THEN 1 ELSE 0)
           /\ (runPc' = "start" /\ runPc # "start") =>
                /\ sup = "dialMC"
                /\ apiConn = "open" /\ apiConn' = "open" /\ mcConn' = "open"
                /\ m.dialSuccess["minecraft"] = metrics.dialSuccess["minecraft"] + 1
           /\ m.bridges # metrics.bridges =>
                /\ m.bridges = metrics.bridges + 1
                /\ runPc = "start"
                /\ apiConn = "open" /\ mcConn = "open"
           /\ (sup = "dialAPI" /\ sup' = "returned") =>
                /\ apiConn' = "none" /\ mcConn' = "none"
                /\ m.dialSuccess = metrics.dialSuccess
                /\ m.dialFailures["minecraft"] = metrics.dialFailures["minecraft"]
                /\ runPc' = runPc /\ m.bridges = metrics.bridges
           /\ (sup = "dialMC" /\ sup' = "returned") =>
                /\ apiConn' = "closed" /\ mcConn' = "none"
                /\ runPc' = runPc /\ m.bridges = metrics.bridges]_vars

\* C28 witness: three attempts: one failed at the control plane's dial, one
\* at the managed endpoint's dial, and the third is bridging.
C28_Witness ==
    /\ metrics.sessions = 3
    /\ metrics.dialFailures["api"] = 1
    /\ metrics.dialFailures["minecraft"] = 1
    /\ metrics.bridges = 1
    /\ runPc = "select"
    /\ apiConn = "open" /\ mcConn = "open"


\* No RegisterAgent, Close or agentClosed is in progress, and none was cut
\* short by a panic.
Quiescent ==
    /\ Running
    /\ hubMu = 0
    /\ \A c \in Conns : hpc[c] \in {"idle", "wait", "done"}
    /\ \A c \in Conns : rpc[c] \in {"off", "read", "done"}

\* A connection that is installed, open, and that nobody superseded.
Live(c) ==
    /\ hpc[c] = "wait" /\ rpc[c] = "read"
    /\ ~transportClosed[c] /\ ~closed[c]
    /\ c \notin superseded

\* C29: whenever the hub is quiescent, a server is marked connected in the
\* store exactly when a management connection is registered for its id; in
\* particular the server of a live connection is marked connected.
C29_ConnectedIffRegistered ==
    Quiescent =>
        /\ \A s \in ServerIds : connectedAt[s] <=> (agents[s] # NoConn)
        /\ \A c \in Conns : Live(c) => connectedAt[connSid[c]]


\* C30: registering the slot of a new Call never replaces the slot of another
\* call: every outstanding call whose channel nobody has sent to or closed
\* (no response, no failPending, no exit of its own) still has its own slot
\* in the pending table of its connection, under its own id, whether the id
\* was generated or supplied by the caller.
C30_OwnSlot ==
    \A k \in Calls :
        (Outstanding(k) /\ ~chClosed[k] /\ chBuf[k] = Empty /\ chSends[k] = <<>>)
            => pending[cconn[k]][cid[k]] = k


\* The pending-call channels of both processes.  The hub and the agent are
\* two processes that share no memory, so each is run from the initial state
\* with the other one not started: one management connection with its calls,
\* responses and closing paths, or one bridge session with its discovery
\* calls, the B-to-A loop and session.close.
HubUntouched ==
    /\ \A c \in Conns : hpc[c] = "idle" /\ rpc[c] = "off"
    /\ \A k \in Calls : cpc[k] = "idle"
AgentUntouched == sup = "top" /\ ~cancelled /\ metrics = NoMetrics

NextChannels ==
    \/ AgentUntouched /\ NextCalls
    \/ HubUntouched /\ NextBridge

SpecChannels == Init /\ [][NextChannels]_vars

\* C31: no pending-call channel is closed twice or sent to after it was
\* closed, on the hub (Call's exits, the read loop, failPending) and in the
\* bridge session (callMinecraft, handleMCMessage, session.close): no such
\* panic is reachable, and a channel that is still in a pending table is open.
C31_ChannelsClosedOnce ==
    /\ ~chanPanic
    /\ ~agentPanic
    /\ \A k \in Slotted : ~chClosed[k]
    /\ \A d \in sPending : ~dch[d].closed

\* C31 witness: two calls registered under the same caller-supplied id; the
\* first one's deadline closed the channel found under it, the second call's;
\* then the connection was closed and failPending ran.
C31_Witness ==
    /\ cid = <<CallerId, CallerId>>
    /\ outcome[1] = "timeout"
    /\ chClosed[2] /\ ~chClosed[1]
    /\ \E c \in Conns : failCount[c] = 1
    /\ \A k \in Calls : cpc[k] = "done"


\* C32: no frame read from B that carries the id of a self-issued call (the
\* bridge's own "agent:" namespace) is ever written to A, whether it arrives
\* while the call is outstanding or after the call has returned.
C32_OwnIdsNeverToA ==
    \A i \in 1..Len(toA) :
        toA[i].src = "B" => bLog[toA[i].n].id \notin Discovers


\* ------------------------------------------------------------------ C33
\* The locks are taken in one order: h.mu before a connection's writeMu and
\* pendMu (RegisterAgent closing the connection it found), and no goroutine
\* holding writeMu or pendMu asks for h.mu, so a wait can only be endless
\* when the holder of a lock has stopped.

\* C33: the hub cannot deadlock: the goroutine holding the hub lock is
\* always one that still runs and will release it, so no task waits on the
\* hub lock forever.
C33_HubLockHolderRuns ==
    \A t \in Conns : hubMu = t => hpc[t] # "panicked"


\* ------------------------------------------------------------------ C34
\* C34: a Call whose send fails returns that error and takes out of the
\* pending table the entry it registered and nothing else: every slot other
\* than its own is as before, so the table is as it was before the call.
C34_FailedSendRemovesOwn ==
    [][\A k \in Calls :
          (cpc[k] = "write" /\ cpc'[k] = "done") =>
              /\ outcome'[k] = "send error"
              /\ k \notin {pending'[c][i] : c \in Conns, i \in Ids}
              /\ \A c \in Conns, i \in Ids :
                    pending'[c][i] # pending[c][i] => pending[c][i] = k]_vars


\* ------------------------------------------------------------------ C35
\* A Call is in progress on c from AgentFor's answer until Call returns.
InProgress(c) == {k \in Calls : cconn[k] = c /\ cpc[k] \in {"Call", "write", "wait"}}

\* C35: once the closed signal of a management connection has fired and
\* every Call in progress on it has returned, its pending table is empty,
\* and it is empty again whenever the Calls begun after the close returned.
C35_ClosedTableEmpty ==
    \A c \in Conns :
        (closed[c] /\ InProgress(c) = {}) => \A i \in Ids : pending[c][i] = NoCall

\* Connection 1 was closed with call 1 waiting (failPending sent it nil);
\* call 2 found the connection still registered, failed to send and
\* returned; the table is empty.
C35_Witness ==
    /\ closed[1] /\ failCount[1] = 1
    /\ cconn = <<1, 1>>
    /\ cpc = <<"done", "done">>
    /\ chSends[1] = <<Nil>> /\ outcome[1] = "agent disconnected"
    /\ chSends[2] = <<>> /\ outcome[2] = "send error"
    /\ \A i \in Ids : pending[1][i] = NoCall


\* ------------------------------------------------------------------ C36
\* The viewers broadcast n has tried to send to so far.
Attempted(n) == blog[n].sent \cup blog[n].failed

\* C36: for one management connection, each send attempt of a broadcast is
\* made by the read loop for the notification it read last, to a viewer of
\* its copy registered under the connection's server id, and only when
\* every earlier broadcast of that connection has attempted all of its
\* viewers; a viewer receives notifications in the order they were read.
C36_BroadcastsInOrder ==
    [][\A n \in 1..MaxFrames :
          (n <= frameSeq /\ Attempted(n)' # Attempted(n)) =>
              LET c == frameLog[n].conn IN
              /\ rpc[c] = "broadcast" /\ bFrame[c] = n
              /\ \A m \in 1..(n - 1) :
                    (frameLog[m].conn = c /\ frameLog[m].kind = "notification")
                        => Attempted(m) = blog[m].snap
              /\ \A v \in Attempted(n)' \ Attempted(n) :
                    /\ v \in blog[n].snap
                    /\ vSid[v] = connSid[c]
                    /\ blog[n].server = connSid[c]
                    /\ \A m \in vRecv[v] : m < n
                    /\ vRecv'[v] \subseteq vRecv[v] \cup {n}]_vars

\* Both viewers of one server id have received the first and then the
\* second notification of the connection.
C36_Witness ==
    /\ frameSeq = 2
    /\ \A n \in 1..2 : blog[n].snap = Viewers /\ blog[n].sent = Viewers
    /\ \A v \in Viewers : vRecv[v] = {1, 2}


\* ------------------------------------------------------------------ C37
\* The supervisor over sessions that run their discovery: main's loop with
\* its reconnects, and in each session the discovery loop with the B-to-A
\* loop that hands it its responses; every discovery call is answered.
NextCounters ==
    \/ SupervisorStep
    \/ RunStep
    \/ pipeAPIToMC_ReadError
    \/ pipeMCToAPI_Read
    \/ pipeMCToAPI_ReadError
    \/ discoverLoop_CtxDone
    \/ discoverLoop_Call
    \/ callMinecraft_Write
    \/ callMinecraft_Receive
    \/ sendDiscover_Publish

SpecCounters == Init /\ [][NextCounters]_vars

\* C37: at every state of the agent the counters of its telemetry satisfy
\* failures <= sessions; bridges <= successful dials of the managed endpoint
\* <= successful dials of the control plane <= sessions; discovery
\* successes <= bridges.
C37_CounterOrder ==
    /\ metrics.failures <= metrics.sessions
    /\ metrics.bridges <= metrics.dialSuccess["minecraft"]
    /\ metrics.dialSuccess["minecraft"] <= metrics.dialSuccess["api"]
    /\ metrics.dialSuccess["api"] <= metrics.sessions
    /\ metrics.discoverSuccess <= metrics.bridges


\* Three sessions were started: two were bridged, found the endpoint's
\* schema and failed; the third is at its dial.
C37_Witness ==
    /\ metrics.sessions = 3
    /\ metrics.failures = 2
    /\ metrics.bridges = 2
    /\ metrics.discoverSuccess = 2
    /\ sup = "dialAPI"


\* ------------------------------------------------------------------ C38
\* The RPC proxy with callers of every role and methods under every kind
\* of rule: one management connection that registers, answers and stays,
\* and the requests made before and after it is there.
NextRPC ==
    \/ \E c \in CallConns :
        \/ RegisterAgent_Lock(c)
        \/ RegisterAgent_Return(c)
        \/ readLoop_Response(c)
    \/ \E k \in Calls :
        \/ handleServerRPC_Lookup(k)
        \/ Call_Register(k)
        \/ Call_SendError(k)
        \/ Call_Write(k)
        \/ Call_Timeout(k)
        \/ Call_Receive(k)

InitRPC == InitHubFor(WellFormed, Requests) /\ InitAgent(DefaultCfg)

SpecRPC == InitRPC /\ [][NextRPC]_vars

\* The role of the first rule whose prefix the method starts with, owner
\* when there is none.
FirstMatchRole(method) ==
    LET hits == {i \in 1..Len(rbacRules) : HasPrefix(method, rbacRules[i].prefix)}
IN  IF hits = {} THEN RoleOwner
    ELSE rbacRules[CHOOSE i \in hits : \A j \in hits : i <= j].role

\* The request passed the role check: the hub was asked for the connection.
Admitted(k) ==
    \/ cpc[k] \in {"Call", "write", "wait"}
    \/ cpc[k] = "done" /\ outcome[k] # "forbidden"

\* The request's frame was written to the agent.
SentToAgent(k) ==
    \/ cpc[k] = "wait"
    \/ cpc[k] = "done" /\ outcome[k] \in {"ok", "timeout", "agent disconnected"}

\* Every finished request made one audit entry, "ok" exactly for a success,
\* and no unfinished request has made any.
OneAuditEach ==
    \A k \in Calls :
        IF cpc[k] = "done"
        THEN /\ Len(audit[k]) = 1
             /\ audit[k][1].action = req[k].method
             /\ audit[k][1].status = "ok" <=> outcome[k] = "ok"
             /\ outcome[k] = "forbidden" <=> audit[k][1].err = "rbac denied"
             /\ outcome[k] \in {"forbidden", "agent not connected", "timeout",
                               "agent disconnected", "send error", "ok"}
        ELSE audit[k] = <<>>

\* A request that was denied never reached the hub or the agent.
DeniedTouchesNothing ==
    \A k \in Calls :
        (cpc[k] = "done" /\ outcome[k] = "forbidden") =>
            /\ cconn[k] = NoConn /\ cid[k] = NoId
            /\ chSends[k] = <<>> /\ ~chClosed[k]

\* C38 as stated: a frame reaches an agent only if the caller's role
\* meets the role of the first rule whose prefix the method starts with,
\* owner when no rule matches; the check precedes the lookup and the Call;
\* every outcome records exactly one audit entry.
C38_FirstRuleOrOwner ==
    /\ \A k \in Calls :
        SentToAgent(k) =>
            roleOrder(req[k].role) >= roleOrder(FirstMatchRole(req[k].method))
    /\ DeniedTouchesNothing
    /\ OneAuditEach

\* C38: a frame reaches an agent only if the caller's role meets the
\* minimum role of its method: viewer for a request without a method, else
\* the role of the first rule whose prefix the method starts with, owner
\* when no rule matches.  The check precedes the hub lookup and the Call: a
\* request is denied exactly when the role falls short, and then touches
\* neither hub nor agent.  Every outcome (denied, agent offline, call error,
\* success) makes exactly one audit entry.
C38_RoleGate ==
    /\ \A k \in Calls :
        LET min == IF req[k].method = NoMethod THEN RoleViewer
                   ELSE FirstMatchRole(req[k].method)
        IN  /\ (Admitted(k) \/ SentToAgent(k)) =>
                    roleOrder(req[k].role) >= roleOrder(min)
            /\ (cpc[k] = "done" /\ outcome[k] = "forbidden") =>
                    roleOrder(req[k].role) < roleOrder(min)
    /\ DeniedTouchesNothing
    /\ OneAuditEach

\* A moderator asking to stop the server was denied; a viewer's request
\* without a method was sent to the agent and answered.
C38_Witness ==
    /\ cpc = <<"done", "done">>
    /\ req[1] = [role |-> RoleModerator, method |-> <<"minecraft:", "server", "/", "stop">>]
    /\ outcome[1] = "forbidden"
    /\ req[2] = [role |-> RoleViewer, method |-> NoMethod]
    /\ outcome[2] = "ok"
    /\ Len(audit[1]) = 1 /\ Len(audit[2]) = 1


\* ------------------------------------------------------------------ C39
\* The discovery loop taken alone: one session whose managed endpoint
\* takes the requests and never answers, so that every attempt ends by its
\* deadline, a failed write or the session's end, MaxRetries attempts long.
NextRetry ==
    \/ signal_Cancel
    \/ main_LoopTop
    \/ runOnce_DialAPI
    \/ runOnce_DialMC
    \/ RunStep
    \/ pipeAPIToMC_ReadError
    \/ pipeMCToAPI_ReadError
    \/ discoverLoop_CtxDone
    \/ discoverLoop_Call
    \/ callMinecraft_Write
    \/ callMinecraft_WriteError
    \/ callMinecraft_Timeout
    \/ discoverLoop_BackoffElapsed

InitRetry == InitHub(WellFormed) /\ InitAgentFor(DefaultCfg, MaxRetries)

SpecRetry == InitRetry /\ [][NextRetry]_vars

\* The delays of the discovery loop, in seconds, by the number of waits
\* that have elapsed.
RetryDelays == <<5, 10, 20, 40>>
RetryDelay(n) == IF n < Len(RetryDelays) THEN RetryDelays[n + 1] ELSE 60

\* The waits of the session's discovery loop that have elapsed: one per
\* failed attempt, but for the one it is waiting after (while it runs).
WaitsElapsed == metrics.discoverFailures - (IF dpc = "backoff" THEN 1 ELSE 0)

\* C39: the retry delay of the discovery task is 5 s at first, twice the
\* previous one after each failed attempt, and one minute from the fifth
\* on (5, 10, 20, 40, 60, 60, ...); no step lowers it and it never exceeds
\* 60 s.
C39_DelayDoublesToCap ==
    [][/\ dpc = "off" => dBackoff = 5
       /\ dpc \in {"loop", "call_write", "call_wait", "backoff"} =>
            dBackoff = RetryDelay(WaitsElapsed)
       /\ dBackoff' >= dBackoff
       /\ dBackoff' <= 60
       /\ dBackoff' # dBackoff =>
            /\ dpc = "backoff" /\ dpc' = "loop"
            /\ dBackoff' = IF dBackoff >= 40 THEN 60 ELSE 2 * dBackoff]_vars

\* Six attempts have failed and the loop is waiting its second full minute.
C39_Witness ==
    /\ dAttempt = 6 /\ metrics.discoverFailures = 6
    /\ dpc = "backoff"
    /\ dBackoff = 60

====
